---- MODULE Spec2Model ----
(***************************************************************************)
(* Deck-list compilation pipeline of yugioh-rush: the line parsers, the    *)
(* image resolver and the 2x2 grid paginator of generate_deck_pdfs.py and  *)
(* generate_direct_pdf.py.                                                 *)
(*                                                                         *)
(* A Python str is modelled as a sequence of one-character strings, so     *)
(* that the regular expressions and str methods of the source are computed *)
(* character by character.  Python's None is the value None below, which   *)
(* is no sequence of characters.                                           *)
(***************************************************************************)
EXTENDS Integers, Sequences, FiniteSets, TLC

None == <<"None">>

\* Python truthiness of an Optional[str]: None and "" are false.
Truthy(v) == v # None /\ v # <<>>

(***************************************************************************)
(* Character classes of the re module for str patterns (no re.ASCII flag). *)
(* The classes are exact on ASCII and Latin-1.  A character beyond Latin-1 *)
(* cannot be written in a string of this module; a few of them stand in    *)
(* for their class and are written by code point, "U+0663" for the         *)
(* ARABIC-INDIC DIGIT THREE.                                               *)
(***************************************************************************)
AsciiDigits == {"0", "1", "2", "3", "4", "5", "6", "7", "8", "9"}

\* decimal digits beyond Latin-1 (category Nd): ARABIC-INDIC, DEVANAGARI and
\* FULLWIDTH DIGIT THREE
UnicodeThrees == {"U+0663", "U+0969", "U+FF13"}

\* \d
DigitChars == AsciiDigits \cup UnicodeThrees

AsciiLetters ==
    {"a", "b", "c", "d", "e", "f", "g", "h", "i", "j", "k", "l", "m",
     "n", "o", "p", "q", "r", "s", "t", "u", "v", "w", "x", "y", "z",
     "A", "B", "C", "D", "E", "F", "G", "H", "I", "J", "K", "L", "M",
     "N", "O", "P", "Q", "R", "S", "T", "U", "V", "W", "X", "Y", "Z"}

\* the letters of Latin-1, and GREEK CAPITAL LETTER OMEGA for those beyond
Latin1Letters ==
    {"ª", "µ", "º", "À", "Á", "Â", "Ã", "Ä", "Å", "Æ", "Ç", "È", "É", "Ê",
     "Ë", "Ì", "Í", "Î", "Ï", "Ð", "Ñ", "Ò", "Ó", "Ô", "Õ", "Ö", "Ø", "Ù",
     "Ú", "Û", "Ü", "Ý", "Þ", "ß", "à", "á", "â", "ã", "ä", "å", "æ", "ç",
     "è", "é", "ê", "ë", "ì", "í", "î", "ï", "ð", "ñ", "ò", "ó", "ô", "õ",
     "ö", "ø", "ù", "ú", "û", "ü", "ý", "þ", "ÿ",
     "U+03A9"}

LetterChars == AsciiLetters \cup Latin1Letters

\* characters of Latin-1 that str.isalnum() accepts and \d does not
Latin1Numerics == {"²", "³", "¹", "¼", "½", "¾"}

\* \s and the characters str.strip() removes: blank, \t, \n, \r, \f, U+000B,
\* U+001C to U+001F, U+0085, U+00A0, and EM SPACE and IDEOGRAPHIC SPACE for
\* those beyond Latin-1
SpaceChars ==
    {" ", "\t", "\n", "\r", "\f", "", "", "", "", "",
     "", " ", "U+2003", "U+3000"}

\* \w
WordChars == LetterChars \cup DigitChars \cup Latin1Numerics \cup {"_"}

IsDigit(c) == c \in DigitChars
IsSpace(c) == c \in SpaceChars

DigitVal(c) ==
    CASE c = "0" -> 0 [] c = "1" -> 1 [] c = "2" -> 2 [] c = "3" -> 3
      [] c = "4" -> 4 [] c = "5" -> 5 [] c = "6" -> 6 [] c = "7" -> 7
      [] c = "8" -> 8 [] c = "9" -> 9 [] c \in UnicodeThrees -> 3

(***************************************************************************)
(* str helpers.  Indices are 1-based; an "end" index is the index of the   *)
(* first character after a match.                                          *)
(***************************************************************************)
RECURSIVE DigitsEnd(_, _)
\* \d* matched greedily from index i
DigitsEnd(s, i) ==
    IF i <= Len(s) /\ IsDigit(s[i]) THEN DigitsEnd(s, i + 1) ELSE i

RECURSIVE SpacesEnd(_, _)
\* \s* matched greedily from index i
SpacesEnd(s, i) ==
    IF i <= Len(s) /\ IsSpace(s[i]) THEN SpacesEnd(s, i + 1) ELSE i

\* the literal lit occurs in s at index i
LitAt(s, i, lit) ==
    /\ i >= 1
    /\ i + Len(lit) - 1 <= Len(s)
    /\ SubSeq(s, i, i + Len(lit) - 1) = lit

\* s[i] exists and equals c
CharAt(s, i, c) == i >= 1 /\ i <= Len(s) /\ s[i] = c

\* index of the first c at or after index i, 0 when there is none
FirstIndexOf(s, i, c) ==
    LET hits == {j \in i..Len(s) : s[j] = c}
    IN  IF hits = {} THEN 0
        ELSE CHOOSE j \in hits : \A k \in hits : j <= k

\* sub in s  (Python's substring test)
Contains(s, sub) == \E i \in 1..(Len(s) + 1) : LitAt(s, i, sub) \/ sub = <<>>

RECURSIVE RStrip(_)
RStrip(s) ==
    IF s # <<>> /\ IsSpace(s[Len(s)]) THEN RStrip(SubSeq(s, 1, Len(s) - 1)) ELSE s

\* str.strip()
Strip(s) == LET k == SpacesEnd(s, 1) IN RStrip(SubSeq(s, k, Len(s)))

RECURSIVE ToInt(_)
\* int() of a string of digits
ToInt(ds) ==
    IF ds = <<>> THEN 0
    ELSE 10 * ToInt(SubSeq(ds, 1, Len(ds) - 1)) + DigitVal(ds[Len(ds)])

(***************************************************************************)
(* clean_card_name: the name normalisation used for image file names.      *)
(***************************************************************************)
RECURSIVE RemoveParens(_, _)
\* re.sub(r'\s*\([^)]*\)', '', name), scanning from index i
RemoveParens(s, i) ==
    IF i > Len(s) THEN <<>>
    ELSE LET k == SpacesEnd(s, i)
             j == IF CharAt(s, k, "(") THEN FirstIndexOf(s, k + 1, ")") ELSE 0
         IN  IF j > 0 THEN RemoveParens(s, j + 1)
             ELSE <<s[i]>> \o RemoveParens(s, i + 1)

\* re.sub(r'^\d+\.\s*', '', name)
RemoveOrdinal(s) ==
    LET d == DigitsEnd(s, 1)
    IN  IF d > 1 /\ CharAt(s, d, ".")
        THEN SubSeq(s, SpacesEnd(s, d + 1), Len(s))
        ELSE s

\* name.replace(old, new) for single characters
ReplaceChar(s, old, new) == [i \in 1..Len(s) |-> IF s[i] = old THEN new ELSE s[i]]

IsNameChar(c) == c \in WordChars \cup {"-"}

\* re.sub(r'[^\w\-]', '', name)
RemoveSpecial(s) == SelectSeq(s, IsNameChar)

RECURSIVE CollapseHyphens(_)
\* re.sub(r'-+', '-', name)
CollapseHyphens(s) ==
    IF Len(s) <= 1 THEN s
    ELSE IF s[1] = "-" /\ s[2] = "-" THEN CollapseHyphens(Tail(s))
    ELSE <<s[1]>> \o CollapseHyphens(Tail(s))

RECURSIVE RStripHyphens(_)
\* name.rstrip('-')
RStripHyphens(s) ==
    IF s # <<>> /\ s[Len(s)] = "-" THEN RStripHyphens(SubSeq(s, 1, Len(s) - 1)) ELSE s

\* runs of hyphens and trailing hyphens are kept
clean_card_name_keep_hyphens(name) ==
    LET n1 == RemoveParens(name, 1)
        n2 == RemoveOrdinal(n1)
        n3 == ReplaceChar(n2, "'", "-")
        n4 == ReplaceChar(n3, " ", "-")
    IN  RemoveSpecial(n4)

\* apostrophes are dropped instead of replaced by hyphens
clean_card_name_drop_apostrophe(name) ==
    LET n1 == RemoveParens(name, 1)
        n2 == RemoveOrdinal(n1)
        n4 == ReplaceChar(n2, " ", "-")
        n5 == RemoveSpecial(n4)
        n6 == CollapseHyphens(n5)
    IN  RStripHyphens(n6)

clean_card_name(name) ==
    LET n1 == RemoveParens(name, 1)
        n2 == RemoveOrdinal(n1)
        n3 == ReplaceChar(n2, "'", "-")
        n4 == ReplaceChar(n3, " ", "-")
        n5 == RemoveSpecial(n4)
        n6 == CollapseHyphens(n5)
    IN  RStripHyphens(n6)

(***************************************************************************)
(* Section header literals (compared with == after line.strip()).          *)
(***************************************************************************)
EXTRA_DECK == <<"E","X","T","R","A"," ","D","E","C","K",":">>
MONSTER_CARDS == <<"M","O","N","S","T","E","R"," ","C","A","R","D","S",":">>
FUSION_MONSTERS == <<"F","U","S","I","O","N"," ","M","O","N","S","T","E","R","S",":">>
RITUAL_MONSTERS == <<"R","I","T","U","A","L"," ","M","O","N","S","T","E","R","S",":">>
SPELL_CARDS == <<"S","P","E","L","L"," ","C","A","R","D","S",":">>
TRAP_CARDS == <<"T","R","A","P"," ","C","A","R","D","S",":">>

\* current_type before any header: Python's None
NoType == "None"

\* the header SPELL CARDS: is also accepted in lower case
HeaderTypeNew_any_case(line) ==
    IF line = EXTRA_DECK THEN "Monster"
    ELSE IF line = MONSTER_CARDS THEN "Monster"
    ELSE IF line = FUSION_MONSTERS THEN "Monster"
    ELSE IF line = RITUAL_MONSTERS THEN "Monster"
    ELSE IF line = SPELL_CARDS THEN "Spell"
    ELSE IF line = <<"s","p","e","l","l"," ","c","a","r","d","s",":">> THEN "Spell"
    ELSE IF line = TRAP_CARDS THEN "Trap"
    ELSE NoType

\* generate_deck_pdfs.parse_deck_new_format: the if/elif chain of headers.
\* The value is the new current_type, or NoType when the line is no header.
HeaderTypeNew(line) ==
    IF line = EXTRA_DECK THEN "Monster"
    ELSE IF line = MONSTER_CARDS THEN "Monster"
    ELSE IF line = FUSION_MONSTERS THEN "Monster"
    ELSE IF line = RITUAL_MONSTERS THEN "Monster"
    ELSE IF line = SPELL_CARDS THEN "Spell"
    ELSE IF line = TRAP_CARDS THEN "Trap"
    ELSE NoType

\* generate_direct_pdf.parse_deck_file: the if/elif chain of headers.
HeaderTypeDirect(line) ==
    IF line = EXTRA_DECK THEN "Extra Deck"
    ELSE IF line = MONSTER_CARDS THEN "Monster"
    ELSE IF line = SPELL_CARDS THEN "Spell"
    ELSE IF line = TRAP_CARDS THEN "Trap"
    ELSE NoType

(***************************************************************************)
(* The card-line regular expressions, matched as Python's backtracking     *)
(* matcher does on a stripped line.                                        *)
(***************************************************************************)
EDOPRO_OPEN == <<"(","E","D","O","P","r","o",":">>
OPIE == <<"o","p","i","e">>

\* . matches every character except the newline: s[a..b] can be a name group
Dots(s, a, b) == \A k \in a..b : s[k] # "\n"

\* $ matches at the end of the string and before a newline that ends it
AtEnd(s, k) == k = Len(s) + 1 \/ (k >= 1 /\ k = Len(s) /\ s[k] = "\n")

NoMatch == [ok |-> FALSE, name |-> None, id |-> None, count |-> None, end |-> 0]

\* ^\d+\.\s*  : index of the first character of the name group, 0 on failure
OrdinalEnd(s) ==
    LET d == DigitsEnd(s, 1)
    IN  IF d > 1 /\ CharAt(s, d, ".") THEN SpacesEnd(s, d + 1) ELSE 0

\* \(EDOPro:\s*([^)]+)\)  at index k: group 2 and the end index
IdGroupFrom(s, k) ==
    LET a == k + Len(EDOPRO_OPEN)
        j == IF LitAt(s, k, EDOPRO_OPEN) THEN FirstIndexOf(s, a, ")") ELSE 0
        b == SpacesEnd(s, a)
    IN  IF j > a
        THEN [ok |-> TRUE,
              id |-> IF b < j THEN SubSeq(s, b, j - 1) ELSE SubSeq(s, j - 1, j - 1),
              end |-> j + 1]
        ELSE [ok |-> FALSE, id |-> None, end |-> 0]

\* \s*\(EDOPro:\s*([^)]+)\)  at index p
IdGroupAt(s, p) == IdGroupFrom(s, SpacesEnd(s, p))

\* [Cc]opies?\)  at index k, after the digits s[q+1..d-1] of group 3
CopiesFrom(s, q, d, k) ==
    LET m == k + 1 + Len(OPIE)
        e == IF CharAt(s, m, "s") THEN m + 1 ELSE m
    IN  IF /\ CharAt(s, q, "(")
           /\ d > q + 1
           /\ (CharAt(s, k, "C") \/ CharAt(s, k, "c"))
           /\ LitAt(s, k + 1, OPIE)
           /\ CharAt(s, e, ")")
        THEN [ok |-> TRUE, count |-> SubSeq(s, q + 1, d - 1), end |-> e + 1]
        ELSE [ok |-> FALSE, count |-> None, end |-> 0]

\* \((\d+)\s*[Cc]opies?\)  at index q: group 3 and the end index
CountGroupAt(s, q) ==
    CopiesFrom(s, q, DigitsEnd(s, q + 1), SpacesEnd(s, DigitsEnd(s, q + 1)))

\* (?:\((\d+)\s*[Cc]opies?\))?$  at index k, c the count group tried at k
TailFrom(s, k, c) ==
    IF c.ok /\ AtEnd(s, c.end) THEN [ok |-> TRUE, count |-> c.count, end |-> c.end]
    ELSE IF AtEnd(s, k) THEN [ok |-> TRUE, count |-> None, end |-> k]
    ELSE [ok |-> FALSE, count |-> None, end |-> 0]

\* \s*(?:\((\d+)\s*[Cc]opies?\))?$  at index q
TailAt(s, q) == TailFrom(s, SpacesEnd(s, q), CountGroupAt(s, SpacesEnd(s, q)))

\* The outcome for one name end: g the EDOPro group tried after the name, t1
\* the tail tried after g, t2 the tail tried without the EDOPro group.
RestNewFrom(g, t1, t2) ==
    IF g.ok /\ t1.ok THEN [ok |-> TRUE, id |-> g.id, count |-> t1.count, end |-> t1.end]
    ELSE IF t2.ok THEN [ok |-> TRUE, id |-> None, count |-> t2.count, end |-> t2.end]
    ELSE [ok |-> FALSE, id |-> None, count |-> None, end |-> 0]

\* the tail after the EDOPro group g, no match when g did not match
TailAfter(s, g) ==
    IF g.ok THEN TailAt(s, g.end) ELSE [ok |-> FALSE, count |-> None, end |-> 0]

\* What follows the lazy name group (.+?) in parse_deck_new_format, tried with
\* the name ending at index n: first with the EDOPro group, then without it.
RestNewAt(s, n) ==
    RestNewFrom(IdGroupAt(s, n + 1), TailAfter(s, IdGroupAt(s, n + 1)), TailAt(s, n + 1))

\* the ends n of the names s[st..n] for which the rest of the pattern matches
NewEnds(s, st) == {n \in st..Len(s) : Dots(s, st, n) /\ RestNewAt(s, n).ok}

\* the name starts left to ^\d+\.\s* , which ends between d + 1 and st0
NewStarts(s, d, st0) ==
    IF st0 = 0 THEN {} ELSE {x \in (d + 1)..st0 : NewEnds(s, x) # {}}

\* the groups of the match with the name s[st..n] and the rest r
NewGroups(s, st, n, r) ==
    [ok |-> TRUE, name |-> SubSeq(s, st, n), id |-> r.id, count |-> r.count, end |-> r.end]

\* the lazy group takes the shortest name for which the rest matches
MatchNewAt(s, st, ends) ==
    NewGroups(s, st, CHOOSE x \in ends : \A y \in ends : x <= y,
              RestNewAt(s, CHOOSE x \in ends : \A y \in ends : x <= y))

\* ^\d+\.\s* first takes all the blanks after the dot and gives them back one
\* by one while no name matches: the largest start wins
MatchNewFrom(s, starts) ==
    IF starts = {} THEN NoMatch
    ELSE MatchNewAt(s, CHOOSE x \in starts : \A y \in starts : x >= y,
                    NewEnds(s, CHOOSE x \in starts : \A y \in starts : x >= y))

\* re.match(r'^\d+\.\s*(.+?)(?:\s*\(EDOPro:\s*([^)]+)\))?\s*(?:\((\d+)\s*[Cc]opies?\))?$', line)
MatchNew(s) == MatchNewFrom(s, NewStarts(s, DigitsEnd(s, 1), OrdinalEnd(s)))

\* re.match(r'^\d+\.\s*(.+?)\s*\(EDOPro:\s*([^)]+)\)', line)
\* The matcher first lets ^\d+\.\s* take all the blanks after the dot and tries
\* every name end; only when none matches does \s* give blanks back to the name.
DirectEnds(s, st) == {n \in st..Len(s) : Dots(s, st, n) /\ IdGroupAt(s, n + 1).ok}

MatchDirect(s) ==
    LET st0 == OrdinalEnd(s)
        d == DigitsEnd(s, 1)
        starts == IF st0 = 0 THEN {} ELSE {x \in (d + 1)..st0 : DirectEnds(s, x) # {}}
    IN  IF starts = {} THEN NoMatch
        ELSE LET st == CHOOSE x \in starts : \A y \in starts : x >= y
                 n == CHOOSE x \in DirectEnds(s, st) : \A y \in DirectEnds(s, st) : x <= y
                 g == IdGroupAt(s, n + 1)
             IN  [ok |-> TRUE, name |-> SubSeq(s, st, n), id |-> g.id,
                  count |-> None, end |-> g.end]

(***************************************************************************)
(* find_image_file of generate_deck_pdfs.py.  The file system is the set   *)
(* `files` of the paths that exist; os.path.join(dir, name) is dir/name.   *)
(***************************************************************************)
PNG == <<".","p","n","g">>
JPG == <<".","j","p","g">>
S_JPG == <<"s",".","j","p","g">>
ALT_ART_JPG == <<"-","a","l","t","-","a","r","t",".","j","p","g">>
RUSH_HD == <<"R","u","s","h","-","H","D">>

\* os.path.join(image_dir, filename): an absolute filename replaces the
\* directory, and no separator is added to an empty directory or after "/"
PathJoin(dir, filename) ==
    IF filename # <<>> /\ filename[1] = "/" THEN filename
    ELSE IF dir = <<>> \/ dir[Len(dir)] = "/" THEN dir \o filename
    ELSE dir \o <<"/">> \o filename

\* the dict special_mappings: the mapped file name, None for a missing key
special_mappings(cleaned_name) ==
    IF cleaned_name = <<"W","i","n","d","c","a","s","t","e","r","-","T","o","r","n","a">>
        THEN <<"W","i","n","d","c","a","s","t","e","r","-","T","o","r","n","a",".","j","p","g">>
    ELSE IF cleaned_name = <<"A","n","s","w","e","r","e","r","-","t","h","e","-","D","e","m","o","n","i","c","-","S","w","o","r","d","s","m","a","n">>
        THEN <<"A","n","s","w","e","r","e","r","-","t","h","e","-","D","e","m","o","n","i","c","-","S","w","o","r","d",".","j","p","g">>
    ELSE IF cleaned_name = <<"T","w","i","n","-","E","d","g","e","-","D","r","a","g","o","n">>
        THEN <<"D","o","u","b","l","e","-","T","w","i","n","-","D","r","a","g","o","n",".","j","p","g">>
    ELSE IF cleaned_name = <<"B","l","u","e","-","E","y","e","s","-","W","h","i","t","e","-","D","r","a","g","o","n">>
        THEN <<"B","l","u","e","-","E","y","e","s","-","W","h","i","t","e","-","D","r","a","g","o","n",".","j","p","g">>
    ELSE IF cleaned_name = <<"D","r","a","g","o","r","i","t","e">>
        THEN <<"D","r","a","g","o","l","i","t","e",".","j","p","g">>
    ELSE IF cleaned_name = <<"D","r","a","g","o","n","s","-","P","r","i","e","s","t","e","s","s">>
        THEN <<"D","r","a","g","o","n","-","s","-","P","r","i","e","s","t","e","s","s",".","j","p","g">>
    ELSE IF cleaned_name = <<"F","i","r","e","-","D","r","a","g","o","n","s","-","H","e","a","t","f","l","a","s","h">>
        THEN <<"F","i","r","e","-","D","r","a","g","o","n","-","s","-","H","e","a","t","f","l","a","s","h",".","j","p","g">>
    ELSE IF cleaned_name = <<"W","i","n","d","-","S","p","i","r","i","t","-","s","-","B","l","e","s","s","i","n","g">>
        THEN <<"M","y","s","t","i","c","a","l","-","E","l","f",".","j","p","g">>
    ELSE None

find_image_file(card_name, dir, fs, edopro_id) ==
    LET cleaned_name == clean_card_name(card_name)
        edopro_filepath == PathJoin(dir, edopro_id \o PNG)
        exact == PathJoin(dir, cleaned_name \o JPG)
        plural == PathJoin(dir, cleaned_name \o S_JPG)
        alt == PathJoin(dir, cleaned_name \o ALT_ART_JPG)
        mapped == special_mappings(cleaned_name)
    IN  IF Truthy(edopro_id) /\ Contains(dir, RUSH_HD) /\ edopro_filepath \in fs
        THEN edopro_filepath
        ELSE IF exact \in fs THEN exact
        ELSE IF plural \in fs THEN plural
        ELSE IF alt \in fs THEN alt
        ELSE IF mapped # None /\ PathJoin(dir, mapped) \in fs THEN PathJoin(dir, mapped)
        ELSE None

(***************************************************************************)
(* get_card_descriptions(): the names that have a description text.  The   *)
(* text itself is abstracted to a non-empty value that names its key.      *)
(***************************************************************************)
DescribedNames ==
    { <<"B","l","u","e","-","E","y","e","s"," ","U","l","t","i","m","a","t","e"," ","D","r","a","g","o","n">>,
      <<"A","b","s","o","l","u","t","e"," ","L","o","r","d"," ","o","f"," ","D",".">>,
      <<"N","o","d","e"," ","o","f"," ","L","e","g","e","n","d">>,
      <<"S","o","u","l"," ","D","r","a","k","e">>,
      <<"T","h","e"," ","U","l","t","i","m","a","t","e"," ","B","l","u","e","-","E","y","e","d"," ","L","e","g","e","n","d">>,
      <<"P","h","o","e","n","i","x"," ","D","r","a","g","o","o","n">>,
      <<"L","i","g","h","t"," ","E","f","f","i","g","y">>,
      <<"T","h","e"," ","F","i","r","e"," ","D","r","a","g","o","n">>,
      <<"S","y","l","p","h","i","d","r","a">>,
      <<"D","e","f","e","n","d","e","r"," ","o","f"," ","D","r","a","g","o","n"," ","S","o","r","c","e","r","e","r","s">>,
      <<"S","a","n","c","t","u","m"," ","o","f"," ","L","e","g","e","n","d">>,
      <<"D","r","a","g","o","n","'","s"," ","I","n","f","e","r","n","o">>,
      <<"T","r","e","a","s","u","r","e"," ","o","f"," ","E","y","e","s"," ","o","f"," ","B","l","u","e">>,
      <<"B","l","u","e","-","E","y","e","s"," ","B","r","i","g","h","t"," ","D","r","a","g","o","n">>,
      <<"B","l","u","e","-","E","y","e","s"," ","V","i","s","i","o","n"," ","D","r","a","g","o","n">> }

get_card_descriptions(name) ==
    IF name \in DescribedNames THEN <<"description of">> \o name ELSE None

(***************************************************************************)
(* Inputs.  A deck file is revealed line by line.  The pipeline reads a    *)
(* sub-sequence of MasterDeck (any lines left out, order kept); the image  *)
(* directory is one of ImageDirs.                                          *)
(***************************************************************************)
MaxLines == 7

MasterDeck ==
    << <<"M","O","N","S","T","E","R"," ","C","A","R","D","S",":">>,
       <<"1","."," ","A","x"," ","(","E","D","O","P","r","o",":"," ","1",")"," ","(","3"," ","c","o","p","i","e","s",")">>,
       <<"2","."," ","A","x","s"," ","(","E","D","O","P","r","o",":"," ","2",")">>,
       <<"3","."," ","B","o"," ","(","E","D","O","P","r","o",":"," ","3",")">>,
       <<"E","X","T","R","A"," ","D","E","C","K",":">>,
       <<"1","."," ","S","y","l","p","h","i","d","r","a"," ","(","E","D","O","P","r","o",":"," ","4",")">>,
       <<"2","."," ","C","y">>,
       <<"3","."," ","A","x"," ","(","E","D","O","P","r","o",":"," ","1",")">>,
       <<"4","."," ","E","e","l"," ","(","E","D","O","P","r","o",":"," ","1",")">>,
       <<"S","P","E","L","L"," ","C","A","R","D","S",":">>,
       <<"1","."," ","D","r","a","g","o","r","i","t","e"," ","(","E","D","O","P","r","o",":"," ","6",")">>,
       <<"2","."," ","F","o","g"," ","(","E","D","O","P","r","o",":"," ","7",")">>,
       <<"T","R","A","P"," ","C","A","R","D","S",":">>,
       <<"1","."," ","D","i"," ","(","E","D","O","P","r","o",":"," ","5",")">>,
       <<"2","."," ","F","o","g"," ","(","E","D","O","P","r","o",":"," ","5",")">> >>

HD_DIR == <<"/","R","u","s","h","-","H","D">>
DA_DIR == <<"/","R","u","s","h","-","C","a","r","d","s","-","D","e","v","i","a","n","t","-","A","r","t">>

ImageDirs ==
    { [path |-> HD_DIR,
       files |-> {PathJoin(HD_DIR, f) : f \in
           { <<"1",".","p","n","g">>,
             <<"2",".","p","n","g">>,
             <<"3",".","p","n","g">>,
             <<"5",".","p","n","g">>,
             <<"6",".","p","n","g">>,
             <<"C","y",".","j","p","g">> }}],
      [path |-> DA_DIR,
       files |-> {PathJoin(DA_DIR, f) : f \in
           { <<"A","x","s",".","j","p","g">>,
             <<"B","o",".","j","p","g">>,
             <<"C","y","-","a","l","t","-","a","r","t",".","j","p","g">>,
             <<"E","e","l",".","j","p","g">>,
             <<"D","r","a","g","o","l","i","t","e",".","j","p","g">>,
             <<"D","i",".","j","p","g">>,
             <<"1",".","p","n","g">> }}] }

\* the files of a directory that exist and cannot be opened as an image: none
\* of them, or the file 1.png
UnreadableSets(d) ==
    {{}} \cup {{f} : f \in d.files \cap {PathJoin(d.path, <<"1",".","p","n","g">>)}}

(***************************************************************************)
(* State.  prog is the script being run; pc its position.  lines is the    *)
(* part of the file read so far and pos the index in MasterDeck of the last *)
(* line read.  The field `line` of a card (the number of the line it was   *)
(* parsed from) is a history field that the source does not keep.          *)
(***************************************************************************)
VARIABLES prog, pc, lines, pos, current_type, cards,
          image_dir, files, i, img_path, seen_cards, seen_images,
          sections, missing_cards, skipped, unique_cards,
          sec_i, page_start, first_page, first_section, pages, reported,
          grid, fit, raw_name, cleaned,
          REPORTLAB_AVAILABLE, PIL_AVAILABLE, unreadable, fallback

vars == <<prog, pc, lines, pos, current_type, cards,
          image_dir, files, i, img_path, seen_cards, seen_images,
          sections, missing_cards, skipped, unique_cards,
          sec_i, page_start, first_page, first_section, pages, reported,
          grid, fit, raw_name, cleaned,
          REPORTLAB_AVAILABLE, PIL_AVAILABLE, unreadable, fallback>>

parseVars == <<lines, pos, current_type, cards>>
genVars == <<image_dir, files, unreadable, i, img_path, seen_cards, seen_images,
             sections, missing_cards, skipped, unique_cards,
             sec_i, page_start, first_page, first_section, pages, reported>>

\* The frames of the functions that are also run on their own: grid is the
\* page geometry and the four cell rectangles computed from it, fit the
\* scale-to-fit of one image into one cell, raw_name and cleaned the
\* argument and the result of clean_card_name.  None while not called.
fnVars == <<grid, fit, raw_name, cleaned>>

FnIdle ==
    /\ grid = None
    /\ fit = None
    /\ raw_name = None
    /\ cleaned = None

\* The outcome of the imports at the top of generate_direct_pdf.py, which are
\* guarded by `except ImportError`; generate_deck_pdfs.py imports PIL and
\* reportlab unguarded and runs only when both are there.
importVars == <<REPORTLAB_AVAILABLE, PIL_AVAILABLE>>

ImportFlags ==
    /\ REPORTLAB_AVAILABLE \in (IF prog = "direct_pdf" THEN BOOLEAN ELSE {TRUE})
    /\ PIL_AVAILABLE \in (IF prog = "direct_pdf" THEN BOOLEAN ELSE {TRUE})

Imported ==
    /\ REPORTLAB_AVAILABLE = TRUE
    /\ PIL_AVAILABLE = TRUE

SectionTypes == {"Extra Deck", "Monster", "Spell", "Trap"}

Init ==
    /\ prog \in {"deck_pdfs", "direct_pdf"}
    /\ pc = "parse"
    /\ lines = <<>>
    /\ pos = 0
    /\ current_type = NoType
    /\ cards = <<>>
    /\ image_dir = None
    /\ files = {}
    /\ i = 1
    /\ img_path = None
    /\ seen_cards = {}
    /\ seen_images = {}
    /\ sections = [t \in SectionTypes |-> <<>>]
    /\ missing_cards = <<>>
    /\ skipped = <<>>
    /\ unique_cards = <<>>
    /\ sec_i = 1
    /\ page_start = 0
    /\ first_page = TRUE
    /\ first_section = TRUE
    /\ pages = <<>>
    /\ reported = <<>>
    /\ unreadable = {}
    /\ fallback = None
    /\ ImportFlags
    /\ FnIdle

(***************************************************************************)
(* The parsers: one loop iteration, on the raw line `raw`.                 *)
(***************************************************************************)
\* the count annotation is ignored
NewCard_no_count(m, type, lineno) ==
    [name |-> Strip(m.name),
     type |-> type,
     count |-> 1,
     edopro_id |-> IF m.id # None THEN Strip(m.id) ELSE None,
     line |-> lineno]

\* a line without a count annotation gets count 0
NewCard_default_zero(m, type, lineno) ==
    [name |-> Strip(m.name),
     type |-> type,
     count |-> IF m.count # None THEN ToInt(m.count) ELSE 0,
     edopro_id |-> IF m.id # None THEN Strip(m.id) ELSE None,
     line |-> lineno]

\* the dict appended by parse_deck_new_format for a matched line
NewCard(m, type, lineno) ==
    [name |-> Strip(m.name),
     type |-> type,
     count |-> IF m.count # None THEN ToInt(m.count) ELSE 1,
     edopro_id |-> IF m.id # None THEN Strip(m.id) ELSE None,
     line |-> lineno]

\* an entry is produced without an active section
ProducesEntry_no_section(m, type) == m.ok

\* `if match and current_type:`
ProducesEntry(m, type) == m.ok /\ type # NoType

\* generate_deck_pdfs.parse_deck_new_format, body of `for line in lines`
ParseDeckNewFormatLine(raw) ==
    /\ prog = "deck_pdfs"
    /\ pc = "parse"
    /\ lines' = Append(lines, raw)
    /\ LET line == Strip(raw)
           h == HeaderTypeNew(line)
           m == MatchNew(line)
       IN  IF h # NoType
           THEN /\ current_type' = h
                /\ cards' = cards
           ELSE IF ProducesEntry(m, current_type)
           THEN /\ cards' = Append(cards, NewCard(m, current_type, Len(lines) + 1))
                /\ current_type' = current_type
           ELSE /\ cards' = cards
                /\ current_type' = current_type
    /\ UNCHANGED <<importVars, fallback, fnVars, prog, pc, genVars>>

\* the dict appended by generate_direct_pdf.parse_deck_file for a matched line
DirectCard(m, type, lineno) ==
    [name |-> Strip(m.name),
     type |-> type,
     edopro_id |-> Strip(m.id),
     line |-> lineno]

\* generate_direct_pdf.parse_deck_file, body of `for line in lines`
ParseDeckFileLine(raw) ==
    /\ prog = "direct_pdf"
    /\ pc = "parse"
    /\ lines' = Append(lines, raw)
    /\ LET line == Strip(raw)
           h == HeaderTypeDirect(line)
           m == MatchDirect(line)
       IN  IF h # NoType
           THEN /\ current_type' = h
                /\ cards' = cards
           ELSE IF ProducesEntry(m, current_type) /\ Strip(m.id) # <<>>
           THEN /\ cards' = Append(cards, DirectCard(m, current_type, Len(lines) + 1))
                /\ current_type' = current_type
           ELSE /\ cards' = cards
                /\ current_type' = current_type
    /\ UNCHANGED <<importVars, fallback, fnVars, prog, pc, genVars>>

\* the next line of the file is a later line of MasterDeck
ReadNew ==
    /\ Len(lines) < MaxLines
    /\ \E k \in (pos + 1)..Len(MasterDeck) :
          /\ ParseDeckNewFormatLine(MasterDeck[k])
          /\ pos' = k

ReadDirect ==
    /\ Len(lines) < MaxLines
    /\ \E k \in (pos + 1)..Len(MasterDeck) :
          /\ ParseDeckFileLine(MasterDeck[k])
          /\ pos' = k

(***************************************************************************)
(* Pagination helpers shared by both scripts.                              *)
(***************************************************************************)
CardsPerPage == 4

Min(a, b) == IF a <= b THEN a ELSE b

\* pages cut five cards at a time
PageSlice_five(card_list, start) ==
    SubSeq(card_list, start + 1, Min(start + CardsPerPage + 1, Len(card_list)))

\* card_list[start:start+4]  (start is 0-based, as in the source)
PageSlice(card_list, start) ==
    SubSeq(card_list, start + 1, Min(start + CardsPerPage, Len(card_list)))

\* index in `order` of the first non-empty section at or after `from`,
\* Len(order) + 1 when there is none  (the `if not card_list: continue`)
FirstNonEmpty(order, secs, from) ==
    LET c == {k \in from..Len(order) : secs[order[k]] # <<>>}
    IN  IF c = {} THEN Len(order) + 1
        ELSE CHOOSE k \in c : \A j \in c : k <= j

\* the last page of a section that does not fill it is not emitted
NextPagePos_drop_partial(order, secs, si, ps) ==
    IF ps + 2 * CardsPerPage <= Len(secs[order[si]])
    THEN <<si, ps + CardsPerPage>>
    ELSE <<FirstNonEmpty(order, secs, si + 1), 0>>

\* the position <<section index, page start>> of the page after the one at
\* <<si, ps>>: the two nested for loops over sections and range(0, len, 4)
NextPagePos(order, secs, si, ps) ==
    IF ps + CardsPerPage < Len(secs[order[si]])
    THEN <<si, ps + CardsPerPage>>
    ELSE <<FirstNonEmpty(order, secs, si + 1), 0>>

(***************************************************************************)
(* generate_deck_pdfs.py: generate_deck_pdf and create_pdf_page.           *)
(***************************************************************************)
SectionOrderNew == <<"Monster", "Spell", "Trap">>

monster_cards == sections["Monster"]
spell_cards == sections["Spell"]
trap_cards == sections["Trap"]

\* main: cards = parse_deck_new_format(...); generate_deck_pdf(name, cards, dir, out)
\* and the set-up of generate_deck_pdf before its first loop
CallGenerateDeckPdf ==
    /\ prog = "deck_pdfs"
    /\ pc = "parse"
    /\ \E d \in ImageDirs :
          /\ image_dir' = d.path
          /\ files' = d.files
          /\ unreadable' \in UnreadableSets(d)
    /\ pc' = "dedup"
    /\ i' = 1
    /\ pos' = 0
    /\ UNCHANGED <<importVars, fallback, fnVars, prog, lines, current_type,
                   cards, img_path, seen_cards, seen_images, sections,
                   missing_cards, skipped, unique_cards, sec_i, page_start,
                   first_page, first_section, pages, reported>>

\* the card is inserted at the front of its list
AddToSection_prepend(secs, type, item) ==
    IF type \in {"Monster", "Spell", "Trap"}
    THEN [secs EXCEPT ![type] = <<item>> \o @]
    ELSE secs

\* the append to monster_cards / spell_cards / trap_cards by card['type']
AddToSection(secs, type, item) ==
    IF type \in {"Monster", "Spell", "Trap"}
    THEN [secs EXCEPT ![type] = Append(@, item)]
    ELSE secs

\* a card skipped for its duplicate image is also listed as missing
GenerateDeckPdfCard_skip_as_missing ==
    /\ prog = "deck_pdfs"
    /\ pc = "dedup"
    /\ i <= Len(cards)
    /\ i' = i + 1
    /\ LET card == cards[i]
           p == find_image_file(card.name, image_dir, files, card.edopro_id)
           card_item == [name |-> card.name,
                         image_path |-> p,
                         description |-> get_card_descriptions(card.name),
                         line |-> card.line]
       IN  IF card.name \notin seen_cards
           THEN /\ img_path' = p
                /\ IF Truthy(p)
                   THEN IF p \notin seen_images
                        THEN /\ seen_cards' = seen_cards \cup {card.name}
                             /\ seen_images' = seen_images \cup {p}
                             /\ sections' = AddToSection(sections, card.type, card_item)
                             /\ UNCHANGED <<missing_cards, skipped>>
                        ELSE /\ skipped' = Append(skipped, card.name)
                             /\ missing_cards' = Append(missing_cards, card.name)
                             /\ UNCHANGED <<seen_cards, seen_images, sections>>
                   ELSE IF Truthy(card_item.description)
                        THEN /\ seen_cards' = seen_cards \cup {card.name}
                             /\ sections' = AddToSection(sections, card.type, card_item)
                             /\ UNCHANGED <<seen_images, missing_cards, skipped>>
                        ELSE /\ missing_cards' = Append(missing_cards, card.name)
                             /\ UNCHANGED <<seen_cards, seen_images, sections, skipped>>
           ELSE UNCHANGED <<img_path, seen_cards, seen_images, sections,
                            missing_cards, skipped>>
    /\ UNCHANGED <<importVars, fallback, fnVars, prog, pc, parseVars,
                   image_dir, files, unreadable, unique_cards, sec_i,
                   page_start, first_page, first_section, pages, reported>>

\* body of `for card in cards` of generate_deck_pdf
GenerateDeckPdfCard ==
    /\ prog = "deck_pdfs"
    /\ pc = "dedup"
    /\ i <= Len(cards)
    /\ i' = i + 1
    /\ LET card == cards[i]
           p == find_image_file(card.name, image_dir, files, card.edopro_id)
           card_item == [name |-> card.name,
                         image_path |-> p,
                         description |-> get_card_descriptions(card.name),
                         line |-> card.line]
       IN  IF card.name \notin seen_cards
           THEN /\ img_path' = p
                /\ IF Truthy(p)
                   THEN IF p \notin seen_images
                        THEN /\ seen_cards' = seen_cards \cup {card.name}
                             /\ seen_images' = seen_images \cup {p}
                             /\ sections' = AddToSection(sections, card.type, card_item)
                             /\ UNCHANGED <<missing_cards, skipped>>
                        ELSE /\ skipped' = Append(skipped, card.name)
                             /\ UNCHANGED <<seen_cards, seen_images, sections, missing_cards>>
                   ELSE IF Truthy(card_item.description)
                        THEN /\ seen_cards' = seen_cards \cup {card.name}
                             /\ sections' = AddToSection(sections, card.type, card_item)
                             /\ UNCHANGED <<seen_images, missing_cards, skipped>>
                        ELSE /\ missing_cards' = Append(missing_cards, card.name)
                             /\ UNCHANGED <<seen_cards, seen_images, sections, skipped>>
           ELSE UNCHANGED <<img_path, seen_cards, seen_images, sections,
                            missing_cards, skipped>>
    /\ UNCHANGED <<importVars, fallback, fnVars, prog, pc, parseVars,
                   image_dir, files, unreadable, unique_cards, sec_i,
                   page_start, first_page, first_section, pages, reported>>

\* after the loop: the report of missing cards, and first_page = True
GenerateDeckPdfReport ==
    /\ prog = "deck_pdfs"
    /\ pc = "dedup"
    /\ i > Len(cards)
    /\ reported' = missing_cards
    /\ first_page' = TRUE
    /\ sec_i' = FirstNonEmpty(SectionOrderNew, sections, 1)
    /\ page_start' = 0
    /\ pc' = "pages"
    /\ UNCHANGED <<importVars, fallback, fnVars, prog, parseVars, image_dir,
                   files, unreadable, i, img_path, seen_cards, seen_images,
                   sections, missing_cards, skipped, unique_cards,
                   first_section, pages>>

\* A dict is a record of its keys; a str, and None, is a sequence.  A record
\* needs a field, so the dict {} is the record with the one key "{}", which
\* no function of the scripts reads.
EmptyDict == [k \in {"{}"} |-> None]

\* isinstance(item, dict): the DOMAIN of a sequence of n characters is 1..n,
\* the DOMAIN of a dict is its set of keys
IsDict(item) ==
    ToString(DOMAIN item) \notin
        {ToString(1..Cardinality(DOMAIN item)),
         ToString({k \in 1..Cardinality(DOMAIN item) : TRUE})}

\* item.get(key): None for a key the dict does not have
Get(item, key) == IF key \in DOMAIN item THEN item[key] ELSE None

\* what create_pdf_page draws for a dict that has a name; in the text branch
\* `len(card_name)` raises TypeError for the name None, after the border
DrawnNew(item, fs) ==
    IF Truthy(Get(item, "image_path")) /\ Get(item, "image_path") \in fs THEN "image"
    ELSE IF Truthy(Get(item, "description"))
         THEN IF item.name = None THEN "TypeError" ELSE "text"
    ELSE "nothing"

\* `else:  # Legacy: item is just an image path`
DrawnLegacy(item, fs) ==
    IF Truthy(item) /\ item \in fs THEN "image" ELSE "nothing"

\* the cell of one item at a row and a column; item['name'] raises KeyError
\* for a dict without the key 'name'
PageCell(item, row, col, fs) ==
    IF IsDict(item)
    THEN IF "name" \in DOMAIN item
         THEN [name |-> item.name,
               image_path |-> Get(item, "image_path"),
               description |-> Get(item, "description"),
               line |-> Get(item, "line"),
               row |-> row,
               col |-> col,
               drawn |-> DrawnNew(item, fs)]
         ELSE [item |-> item,
               row |-> row,
               col |-> col,
               drawn |-> "KeyError"]
    ELSE [item |-> item,
          row |-> row,
          col |-> col,
          drawn |-> DrawnLegacy(item, fs)]

\* `for i, item in enumerate(card_items): if i >= 4: break`: the items drawn
PageItems(card_items) == SubSeq(card_items, 1, Min(Len(card_items), 4))

\* the grid is filled column by column
PageSlot_column_major(idx) == [row |-> idx % 2, col |-> idx \div 2]

\* row = i // 2, col = i % 2, idx the value of i
PageSlot(idx) == [row |-> idx \div 2, col |-> idx % 2]

\* the slot of each item drawn by create_pdf_page
PageSlots(card_items) == [k \in 1..Len(PageItems(card_items)) |-> PageSlot(k - 1)]

\* item['name'] or len(card_name) raised for one of the items
NameRaises(cells) ==
    \E k \in 1..Len(cells) : cells[k].drawn \in {"KeyError", "TypeError"}

\* the path handed to c.drawImage for a cell: img_path of a dict, the item
\* itself in the legacy branch
CellImage(cell) == IF "image_path" \in DOMAIN cell THEN cell.image_path ELSE cell.item

\* c.drawImage raises for a file that cannot be opened as an image, and
\* nothing in generate_deck_pdfs.py catches it
DrawImageRaises(cells, bad) ==
    \E k \in 1..Len(cells) : cells[k].drawn = "image" /\ CellImage(cells[k]) \in bad

\* the cell of each of the first four items, were every item reached
PageCells(card_items, fs) ==
    [k \in 1..Len(PageItems(card_items)) |->
        PageCell(PageItems(card_items)[k], PageSlot(k - 1).row, PageSlot(k - 1).col, fs)]

\* the cells up to the first one that raises, all of them when none does
CellsReached(cells, bad) ==
    IF NameRaises(cells) \/ DrawImageRaises(cells, bad)
    THEN SubSeq(cells, 1,
                CHOOSE k \in 1..Len(cells) :
                    /\ NameRaises(SubSeq(cells, 1, k)) \/ DrawImageRaises(SubSeq(cells, 1, k), bad)
                    /\ ~NameRaises(SubSeq(cells, 1, k - 1))
                    /\ ~DrawImageRaises(SubSeq(cells, 1, k - 1), bad))
    ELSE cells

\* create_pdf_page: the cells of card_items that the loop reaches; the last
\* of them is the one that raises, when one does, and no item after it is drawn
create_pdf_page(card_items, fs, bad) == CellsReached(PageCells(card_items, fs), bad)

\* one iteration of `for i in range(0, len(card_list), 4)` of generate_deck_pdf;
\* an exception of create_pdf_page leaves generate_deck_pdf before c.save()
GenerateDeckPdfPage ==
    /\ prog = "deck_pdfs"
    /\ pc = "pages"
    /\ sec_i <= Len(SectionOrderNew)
    /\ LET card_type == SectionOrderNew[sec_i]
           page_cards == PageSlice(sections[card_type], page_start)
           nxt == NextPagePos(SectionOrderNew, sections, sec_i, page_start)
           cells == create_pdf_page(page_cards, files, unreadable)
       IN  IF DrawImageRaises(cells, unreadable) \/ NameRaises(cells)
           THEN /\ pc' = "raised"
                /\ UNCHANGED <<pages, sec_i, page_start, first_page>>
           ELSE /\ pages' = Append(pages, [section |-> card_type,
                                           show_page |-> ~first_page,
                                           breaks |-> IF ~first_page THEN 1 ELSE 0,
                                           page_start |-> page_start,
                                           cards |-> page_cards,
                                           slots |-> PageSlots(page_cards),
                                           cells |-> cells])
                /\ sec_i' = nxt[1]
                /\ page_start' = nxt[2]
                /\ first_page' = FALSE
                /\ pc' = pc
    /\ UNCHANGED <<importVars, fallback, fnVars, prog, parseVars, image_dir,
                   files, unreadable, i, img_path, seen_cards, seen_images,
                   sections, missing_cards, skipped, unique_cards,
                   first_section, reported>>

\* c.save()
GenerateDeckPdfSave ==
    /\ prog = "deck_pdfs"
    /\ pc = "pages"
    /\ sec_i > Len(SectionOrderNew)
    /\ pc' = "done"
    /\ UNCHANGED <<importVars, fallback, fnVars, prog, parseVars, genVars>>

(***************************************************************************)
(* generate_direct_pdf.py: create_direct_pdf_with_reportlab.               *)
(***************************************************************************)
section_order == <<"Extra Deck", "Monster", "Spell", "Trap">>

\* main: cards = parse_deck_file(...); create_direct_pdf_with_reportlab(...)
CallCreateDirectPdf ==
    /\ prog = "direct_pdf"
    /\ pc = "parse"
    /\ REPORTLAB_AVAILABLE
    /\ \E d \in ImageDirs :
          /\ image_dir' = d.path
          /\ files' = d.files
          /\ unreadable' \in UnreadableSets(d)
    /\ pc' = "dedup"
    /\ i' = 1
    /\ pos' = 0
    /\ UNCHANGED <<importVars, fallback, fnVars, prog, lines, current_type,
                   cards, img_path, seen_cards, seen_images, sections,
                   missing_cards, skipped, unique_cards, sec_i, page_start,
                   first_page, first_section, pages, reported>>

\* create_fallback_pdf: the PostScript text names at most 20 cards; when
\* ps2pdf converts it the .ps file is removed and True is returned, otherwise
\* every card is written to the text file and False is returned
create_fallback_pdf(cs, converted) ==
    [ps |-> [k \in 1..Min(Len(cs), 20) |->
                [name |-> cs[k].name, edopro_id |-> cs[k].edopro_id]],
     ps_kept |-> ~converted,
     txt |-> IF converted THEN None
             ELSE [k \in 1..Len(cs) |->
                      [name |-> cs[k].name, edopro_id |-> cs[k].edopro_id,
                       type |-> cs[k].type]],
     returned |-> converted]

\* create_direct_pdf_with_reportlab: `if not REPORTLAB_AVAILABLE: return
\* create_fallback_pdf(...)`; the exit status of ps2pdf is the environment's
CreateFallbackPdf ==
    /\ prog = "direct_pdf"
    /\ pc = "parse"
    /\ ~REPORTLAB_AVAILABLE
    /\ \E converted \in BOOLEAN : fallback' = create_fallback_pdf(cards, converted)
    /\ pc' = "fallback_done"
    /\ UNCHANGED <<importVars, fnVars, prog, parseVars, genVars>>

\* body of `for card in cards`: duplicates are removed by name only
CreateDirectPdfUnique ==
    /\ prog = "direct_pdf"
    /\ pc = "dedup"
    /\ i <= Len(cards)
    /\ i' = i + 1
    /\ IF cards[i].name \notin seen_cards
       THEN /\ seen_cards' = seen_cards \cup {cards[i].name}
            /\ unique_cards' = Append(unique_cards, cards[i])
       ELSE UNCHANGED <<seen_cards, unique_cards>>
    /\ UNCHANGED <<importVars, fallback, fnVars, prog, pc, parseVars,
                   image_dir, files, unreadable, img_path, seen_images,
                   sections, missing_cards, skipped, sec_i, page_start,
                   first_page, first_section, pages, reported>>

\* the section a card is appended to: its type, 'Monster' for an unexpected type
SectionOf(card) == IF card.type \in SectionTypes THEN card.type ELSE "Monster"

RECURSIVE GroupBySection(_, _)
\* the loop `for card in unique_cards` that fills the dict sections
GroupBySection(secs, cs) ==
    IF cs = <<>> THEN secs
    ELSE GroupBySection([secs EXCEPT ![SectionOf(Head(cs))] = Append(@, Head(cs))],
                        Tail(cs))

\* the grouping loop, and first_section = True
CreateDirectPdfGroup ==
    /\ prog = "direct_pdf"
    /\ pc = "dedup"
    /\ i > Len(cards)
    /\ sections' = GroupBySection(sections, unique_cards)
    /\ first_section' = TRUE
    /\ sec_i' = FirstNonEmpty(section_order, sections', 1)
    /\ page_start' = 0
    /\ pc' = "pages"
    /\ UNCHANGED <<importVars, fallback, fnVars, prog, parseVars, image_dir,
                   files, unreadable, i, img_path, seen_cards, seen_images,
                   missing_cards, skipped, unique_cards, first_page, pages,
                   reported>>

\* c.showPage() is also called before the first page of a section
ShowPageCalls_every_page(first, start) ==
    (IF ~first /\ start = 0 THEN 1 ELSE 0) + (IF start >= 0 THEN 1 ELSE 0)

\* the number of calls of c.showPage() before the page that starts at `start`:
\* `if not first_section` at the start of a section, `if page_start > 0` within
ShowPageCalls(first, start) ==
    (IF ~first /\ start = 0 THEN 1 ELSE 0) + (IF start > 0 THEN 1 ELSE 0)

\* `for i, card in enumerate(page_cards)`: row = i // 2, col = i % 2
DirectSlot(idx) == [row |-> idx \div 2, col |-> idx % 2]

\* the slot of each card of the page
DirectSlots(page_cards) == [k \in 1..Len(page_cards) |-> DirectSlot(k - 1)]

\* f"{card['edopro_id']}": the text of the identifier, 'None' for None
Format(edopro_id) == IF edopro_id = None THEN <<"N", "o", "n", "e">> ELSE edopro_id

\* the cells drawn by `for i, card in enumerate(page_cards)`: the image when
\* the file exists and is drawn without an exception (`except Exception`
\* draws the placeholder), the placeholder otherwise
DirectCells(page_cards, dir, fs, bad) ==
    [k \in 1..Len(page_cards) |->
        LET image_path == PathJoin(dir, Format(page_cards[k].edopro_id) \o PNG)
        IN  [name |-> page_cards[k].name,
             edopro_id |-> page_cards[k].edopro_id,
             image_path |-> image_path,
             line |-> page_cards[k].line,
             row |-> DirectSlot(k - 1).row,
             col |-> DirectSlot(k - 1).col,
             drawn |-> IF image_path \in fs /\ image_path \notin bad
                       THEN "image" ELSE "placeholder"]]

\* one iteration of `for page_start in range(0, len(section_cards), 4)`
CreateDirectPdfPage ==
    /\ prog = "direct_pdf"
    /\ pc = "pages"
    /\ sec_i <= Len(section_order)
    /\ LET section_type == section_order[sec_i]
           page_cards == PageSlice(sections[section_type], page_start)
           nxt == NextPagePos(section_order, sections, sec_i, page_start)
       IN  /\ pages' = Append(pages, [section |-> section_type,
                                      show_page |-> (page_start = 0 /\ ~first_section)
                                                    \/ page_start > 0,
                                      breaks |-> ShowPageCalls(first_section, page_start),
                                      page_start |-> page_start,
                                      cards |-> page_cards,
                                      slots |-> DirectSlots(page_cards),
                                      cells |-> DirectCells(page_cards, image_dir, files,
                                                            unreadable)])
           /\ sec_i' = nxt[1]
           /\ page_start' = nxt[2]
    /\ first_section' = FALSE
    /\ UNCHANGED <<importVars, fallback, fnVars, prog, pc, parseVars,
                   image_dir, files, unreadable, i, img_path, seen_cards,
                   seen_images, sections, missing_cards, skipped, unique_cards,
                   first_page, reported>>

\* c.save()
CreateDirectPdfSave ==
    /\ prog = "direct_pdf"
    /\ pc = "pages"
    /\ sec_i > Len(section_order)
    /\ pc' = "done"
    /\ UNCHANGED <<importVars, fallback, fnVars, prog, parseVars, genVars>>

(***************************************************************************)
(* The pipeline: a script parses a deck file and generates its PDF.        *)
(***************************************************************************)
Next ==
    \/ ReadNew
    \/ CallGenerateDeckPdf
    \/ GenerateDeckPdfCard
    \/ GenerateDeckPdfReport
    \/ GenerateDeckPdfPage
    \/ GenerateDeckPdfSave
    \/ ReadDirect
    \/ CallCreateDirectPdf
    \/ CreateFallbackPdf
    \/ CreateDirectPdfUnique
    \/ CreateDirectPdfGroup
    \/ CreateDirectPdfPage
    \/ CreateDirectPdfSave

Spec == Init /\ [][Next]_vars

(***************************************************************************)
(* The parsers alone, on files of at most MaxParseLines lines drawn freely *)
(* from ParsePool: the headers, headers with blanks or in another case,    *)
(* card lines with and without annotations, and lines that are neither.    *)
(***************************************************************************)
MaxParseLines == 3

\* '<ordinal>. <name> (EDOPro: <identifier>) (<count> copies)'
FullCardLine(e) ==
    e.ordinal \o <<".", " ">> \o e.name \o <<" ">> \o EDOPRO_OPEN \o <<" ">> \o e.id
        \o <<")", " ", "(">> \o e.count \o <<" ","c","o","p","i","e","s",")">>

ID_OPEN == <<"(","I","D",":">>

FullCardSamples ==
    { [ordinal |-> <<"1">>, name |-> <<"S","a","m","p","l","e"," ","D","r","a","g","o","n">>, id |-> <<"9","0","0","0","0","1">>, count |-> <<"2">>],
      [ordinal |-> <<"1", "2">>, name |-> <<"D","r","a","g","o","n","'","s"," ","I","n","f","e","r","n","o">>, id |-> <<"1","6","0","3","0","1","0","0","1">>, count |-> <<"3">>] }

\* '<ordinal>. <name> (ID: <identifier>) (<count> copies)'
IdCardLine(e) ==
    e.ordinal \o <<".", " ">> \o e.name \o <<" ">> \o ID_OPEN \o <<" ">> \o e.id
        \o <<")", " ", "(">> \o e.count \o <<" ","c","o","p","i","e","s",")">>

IdCardSamples == {e \in FullCardSamples : e.ordinal = <<"1">>}

HeaderLines ==
    {EXTRA_DECK, MONSTER_CARDS, FUSION_MONSTERS, RITUAL_MONSTERS, SPELL_CARDS, TRAP_CARDS}

ParsePool ==
    HeaderLines
    \cup {FullCardLine(e) : e \in FullCardSamples}
    \cup {IdCardLine(e) : e \in IdCardSamples}
    \cup { <<" "," ","T","R","A","P"," ","C","A","R","D","S",":","	">>,
           <<"s","p","e","l","l"," ","c","a","r","d","s",":">>,
           <<"3","."," ","C","y">>,
           <<"4","."," ","B","o"," ","(","E","D","O","P","r","o",":"," ","3",")">>,
           <<"5","."," ","D","i"," ","(","0"," ","c","o","p","i","e","s",")">>,
           <<"6",".">>,
           <<"*","*"," ","D","e","c","k"," ","n","o","t","e","s"," ","*","*">>,
           <<>> }

PoolNew ==
    /\ Len(lines) < MaxParseLines
    /\ \E raw \in ParsePool : ParseDeckNewFormatLine(raw)
    /\ pos' = pos

PoolDirect ==
    /\ Len(lines) < MaxParseLines
    /\ \E raw \in ParsePool : ParseDeckFileLine(raw)
    /\ pos' = pos

NextParse == PoolNew \/ PoolDirect

SpecParse == Init /\ [][NextParse]_vars

(***************************************************************************)
(* find_image_file alone, as generate_deck_pdf calls it: one entry, an     *)
(* image directory of either kind, and any set of existing files among     *)
(* ResolveFiles.                                                           *)
(***************************************************************************)
ResolveEntries ==
    { [name |-> <<"S","a","m","p","l","e"," ","D","r","a","g","o","n">>, type |-> "Monster", count |-> 2, edopro_id |-> <<"9","0","0","0","0","1">>, line |-> 2],
      [name |-> <<"S","a","m","p","l","e"," ","D","r","a","g","o","n">>, type |-> "Monster", count |-> 1, edopro_id |-> None, line |-> 2],
      [name |-> <<"D","r","a","g","o","r","i","t","e">>, type |-> "Spell", count |-> 1, edopro_id |-> <<"6">>, line |-> 2],
      [name |-> <<"W","i","n","g","e","d"," ","B","e","a","s","t","'","s"," ","R","o","a","r">>, type |-> "Trap", count |-> 1, edopro_id |-> None, line |-> 2],
      [name |-> <<"S","y","l","p","h","i","d","r","a">>, type |-> "Monster", count |-> 1, edopro_id |-> None, line |-> 2] }

ResolveFiles ==
    { <<"9","0","0","0","0","1",".","p","n","g">>,
      <<"S","a","m","p","l","e","-","D","r","a","g","o","n",".","j","p","g">>,
      <<"S","a","m","p","l","e","-","D","r","a","g","o","n","s",".","j","p","g">>,
      <<"S","a","m","p","l","e","-","D","r","a","g","o","n","-","a","l","t","-","a","r","t",".","j","p","g">>,
      <<"6",".","p","n","g">>,
      <<"D","r","a","g","o","r","i","t","e",".","j","p","g">>,
      <<"D","r","a","g","o","r","i","t","e","-","a","l","t","-","a","r","t",".","j","p","g">>,
      <<"D","r","a","g","o","l","i","t","e",".","j","p","g">>,
      <<"W","i","n","g","e","d","-","B","e","a","s","t","s","-","R","o","a","r",".","j","p","g">>,
      <<"W","i","n","g","e","d","-","B","e","a","s","t","-","s","-","R","o","a","r",".","j","p","g">> }

InitResolve ==
    /\ prog = "deck_pdfs"
    /\ pc = "dedup"
    /\ lines = <<>>
    /\ pos = 0
    /\ current_type = NoType
    /\ cards \in {<<e>> : e \in ResolveEntries}
    /\ image_dir \in {HD_DIR, DA_DIR}
    /\ files \in {{PathJoin(image_dir, f) : f \in fs} : fs \in SUBSET ResolveFiles}
    /\ i = 1
    /\ img_path = None
    /\ seen_cards = {}
    /\ seen_images = {}
    /\ sections = [t \in SectionTypes |-> <<>>]
    /\ missing_cards = <<>>
    /\ skipped = <<>>
    /\ unique_cards = <<>>
    /\ sec_i = 1
    /\ page_start = 0
    /\ first_page = TRUE
    /\ first_section = TRUE
    /\ pages = <<>>
    /\ reported = <<>>
    /\ unreadable = {}
    /\ fallback = None
    /\ Imported
    /\ FnIdle

NextResolve ==
    \/ GenerateDeckPdfCard
    \/ GenerateDeckPdfReport
    \/ GenerateDeckPdfPage
    \/ GenerateDeckPdfSave

SpecResolve == InitResolve /\ [][NextResolve]_vars

(***************************************************************************)
(* generate_updated_decks.py: parse_deck_file, and the three parsers side  *)
(* by side on files drawn from ParsePool.                                  *)
(***************************************************************************)
\* str.startswith
StartsWith(s, prefix) == LitAt(s, 1, prefix)

\* the section headers of generate_updated_decks.parse_deck_file
HeaderTypeUpdated(line) ==
    IF line = EXTRA_DECK THEN "Monster"
    ELSE IF line = MONSTER_CARDS THEN "Monster"
    ELSE IF line = SPELL_CARDS THEN "Spell"
    ELSE IF line = TRAP_CARDS THEN "Trap"
    ELSE NoType

\* re.match(r'^\d+\.\s*(.+?)(?:\s*\(EDOPro:\s*([^)]+)\))?', line)
\* Nothing anchors the end of the pattern and the EDOPro group is optional, so
\* the lazy group (.+?) stops after its first character; the EDOPro group takes
\* part only if it starts right after that character.  When only blanks follow
\* the dot, \s* gives them back up to the last one that is no newline, which
\* becomes the name.
MatchUpdated(s) ==
    LET st0 == OrdinalEnd(s)
        d == DigitsEnd(s, 1)
        back == {k \in (d + 1)..Len(s) : s[k] # "\n"}
        st == IF st0 > Len(s) /\ back # {}
              THEN CHOOSE k \in back : \A x \in back : k >= x
              ELSE st0
        g == IdGroupAt(s, st + 1)
    IN  IF st0 = 0 \/ st > Len(s) THEN NoMatch
        ELSE [ok |-> TRUE, name |-> SubSeq(s, st, st),
              id |-> IF g.ok THEN g.id ELSE None,
              count |-> None,
              end |-> IF g.ok THEN g.end ELSE st + 1]

\* `if not card_name or card_name.startswith('Level') or ...: continue`
SkippedName(card_name) ==
    \/ card_name = <<>>
    \/ StartsWith(card_name, <<"L","e","v","e","l">>)
    \/ StartsWith(card_name, <<"F","u","s","i","o","n">>)
    \/ StartsWith(card_name, <<"A","v","a","i","l","a","b","l","e">>)

\* the dict appended by generate_updated_decks.parse_deck_file
UpdatedCard(m, type, lineno) ==
    [name |-> Strip(m.name),
     type |-> type,
     edopro_id |-> IF Truthy(m.id) THEN Strip(m.id) ELSE None,
     line |-> lineno]

\* generate_updated_decks.parse_deck_file, body of `for line in lines`
ParseDeckFileUpdatedLine(raw) ==
    /\ prog = "updated_decks"
    /\ pc = "parse"
    /\ lines' = Append(lines, raw)
    /\ LET line == Strip(raw)
           h == HeaderTypeUpdated(line)
           m == MatchUpdated(line)
       IN  IF h # NoType
           THEN /\ current_type' = h
                /\ cards' = cards
           ELSE IF ProducesEntry(m, current_type) /\ ~SkippedName(Strip(m.name))
           THEN /\ cards' = Append(cards, UpdatedCard(m, current_type, Len(lines) + 1))
                /\ current_type' = current_type
           ELSE /\ cards' = cards
                /\ current_type' = current_type
    /\ UNCHANGED <<importVars, fallback, fnVars, prog, pc, genVars>>

PoolUpdated ==
    /\ Len(lines) < MaxParseLines
    /\ \E raw \in ParsePool : ParseDeckFileUpdatedLine(raw)
    /\ pos' = pos

InitParseAll ==
    /\ prog \in {"deck_pdfs", "direct_pdf", "updated_decks"}
    /\ pc = "parse"
    /\ lines = <<>>
    /\ pos = 0
    /\ current_type = NoType
    /\ cards = <<>>
    /\ image_dir = None
    /\ files = {}
    /\ i = 1
    /\ img_path = None
    /\ seen_cards = {}
    /\ seen_images = {}
    /\ sections = [t \in SectionTypes |-> <<>>]
    /\ missing_cards = <<>>
    /\ skipped = <<>>
    /\ unique_cards = <<>>
    /\ sec_i = 1
    /\ page_start = 0
    /\ first_page = TRUE
    /\ first_section = TRUE
    /\ pages = <<>>
    /\ reported = <<>>
    /\ unreadable = {}
    /\ fallback = None
    /\ ImportFlags
    /\ FnIdle

NextParseAll == PoolNew \/ PoolDirect \/ PoolUpdated

SpecParseAll == InitParseAll /\ [][NextParseAll]_vars

(***************************************************************************)
(* The page geometry of the two scripts on its own: the card size computed *)
(* at the start of generate_deck_pdf / create_direct_pdf_with_reportlab    *)
(* and the position of each of the four cells.  Lengths are whole numbers  *)
(* of a unit small enough that every length is even, so that the halves    *)
(* the code takes are exact.                                               *)
(***************************************************************************)
GridInputs ==
    [page_width : {20, 24}, page_height : {28, 32}, margin : {0, 2, 4},
     header_space : {0, 2, 4}, gap : {0, 2}]

\* generate_deck_pdf: card_width, card_height
CardSizeNew(g) ==
    LET available_width == g.page_width - 2 * g.margin - g.gap
        available_height == g.page_height - 2 * g.margin - g.header_space - g.gap
    IN  [card_width |-> available_width \div 2,
         card_height |-> available_height \div 2]

\* create_pdf_page: x, y of the cell of the k-th card (k = 1..4)
CellRectNew(g, sz, k) ==
    LET row == (k - 1) \div 2
        col == (k - 1) % 2
    IN  [x |-> g.margin + col * (sz.card_width + g.gap),
         y |-> g.page_height - g.margin - g.header_space
                   - (row + 1) * sz.card_height - row * g.gap,
         width |-> sz.card_width,
         height |-> sz.card_height]

\* create_direct_pdf_with_reportlab: card_width, card_height
\* (header_space is its title_space, gap its card_gap)
CardSizeDirect(g) ==
    LET available_width == g.page_width - 2 * g.margin
        available_height == g.page_height - 2 * g.margin - g.header_space
    IN  [card_width |-> available_width \div 2 - g.gap \div 2,
         card_height |-> available_height \div 2 - g.gap \div 2]

\* create_direct_pdf_with_reportlab: x, y of the cell of the k-th card
CellRectDirect(g, sz, k) ==
    LET row == (k - 1) \div 2
        col == (k - 1) % 2
    IN  [x |-> g.margin + col * (sz.card_width + g.gap),
         y |-> g.page_height - g.margin - g.header_space
                   - (row + 1) * (sz.card_height + g.gap),
         width |-> sz.card_width,
         height |-> sz.card_height]

InitGrid ==
    /\ prog \in {"deck_pdfs", "direct_pdf"}
    /\ pc = "grid"
    /\ grid \in GridInputs
    /\ lines = <<>>
    /\ pos = 0
    /\ current_type = NoType
    /\ cards = <<>>
    /\ image_dir = None
    /\ files = {}
    /\ i = 1
    /\ img_path = None
    /\ seen_cards = {}
    /\ seen_images = {}
    /\ sections = [t \in SectionTypes |-> <<>>]
    /\ missing_cards = <<>>
    /\ skipped = <<>>
    /\ unique_cards = <<>>
    /\ sec_i = 1
    /\ page_start = 0
    /\ first_page = TRUE
    /\ first_section = TRUE
    /\ pages = <<>>
    /\ reported = <<>>
    /\ unreadable = {}
    /\ fallback = None
    /\ Imported
    /\ fit = None
    /\ raw_name = None
    /\ cleaned = None

\* generate_deck_pdf sizes the cards and create_pdf_page places four of them
GenerateDeckPdfGrid ==
    /\ prog = "deck_pdfs"
    /\ pc = "grid"
    /\ LET sz == CardSizeNew(grid)
       IN  grid' = [page |-> grid,
                    card_width |-> sz.card_width,
                    card_height |-> sz.card_height,
                    cells |-> [k \in 1..4 |-> CellRectNew(grid, sz, k)]]
    /\ pc' = "grid_done"
    /\ UNCHANGED <<importVars, fallback, prog, parseVars, genVars, fit,
                   raw_name, cleaned>>

\* create_direct_pdf_with_reportlab sizes the cards and places four of them
CreateDirectPdfGrid ==
    /\ prog = "direct_pdf"
    /\ pc = "grid"
    /\ LET sz == CardSizeDirect(grid)
       IN  grid' = [page |-> grid,
                    card_width |-> sz.card_width,
                    card_height |-> sz.card_height,
                    cells |-> [k \in 1..4 |-> CellRectDirect(grid, sz, k)]]
    /\ pc' = "grid_done"
    /\ UNCHANGED <<importVars, fallback, prog, parseVars, genVars, fit,
                   raw_name, cleaned>>

NextGrid == GenerateDeckPdfGrid \/ CreateDirectPdfGrid

SpecGrid == InitGrid /\ [][NextGrid]_vars

(***************************************************************************)
(* The scale-to-fit of generate_direct_pdf.py on its own.  The code works  *)
(* in floating point; here a number is an exact fraction [n, d], d > 0.    *)
(***************************************************************************)
MaxImage == 4
MaxCell == 3

QInt(k) == [n |-> k, d |-> 1]
QAdd(a, b) == [n |-> a.n * b.d + b.n * a.d, d |-> a.d * b.d]
QSub(a, b) == [n |-> a.n * b.d - b.n * a.d, d |-> a.d * b.d]
QMul(a, b) == [n |-> a.n * b.n, d |-> a.d * b.d]
\* a / b for b > 0
QDiv(a, b) == [n |-> a.n * b.d, d |-> a.d * b.n]
QEq(a, b) == a.n * b.d = b.n * a.d
QLe(a, b) == a.n * b.d <= b.n * a.d
QGt(a, b) == a.n * b.d > b.n * a.d

FitInputs ==
    [img_width : 1..MaxImage, img_height : 1..MaxImage,
     card_width : 1..MaxCell, card_height : 1..MaxCell,
     x : {0, 2}, y : {1}]

\* the image is always fitted to the width of the cell
ScaleToFit_always_width(f) ==
    LET aspect_ratio == QDiv(QInt(f.img_width), QInt(f.img_height))
        draw_width == QInt(f.card_width)
        draw_height == QDiv(draw_width, aspect_ratio)
    IN  [image_x |-> QAdd(QInt(f.x), QDiv(QSub(QInt(f.card_width), draw_width), QInt(2))),
         image_y |-> QAdd(QInt(f.y), QDiv(QSub(QInt(f.card_height), draw_height), QInt(2))),
         draw_width |-> draw_width,
         draw_height |-> draw_height]

\* the body of `with Image.open(image_path) as img:`: the arguments of drawImage
ScaleToFit(f) ==
    LET aspect_ratio == QDiv(QInt(f.img_width), QInt(f.img_height))
        wider == QGt(aspect_ratio, QDiv(QInt(f.card_width), QInt(f.card_height)))
        draw_width == IF wider THEN QInt(f.card_width)
                      ELSE QMul(QInt(f.card_height), aspect_ratio)
        draw_height == IF wider THEN QDiv(QInt(f.card_width), aspect_ratio)
                       ELSE QInt(f.card_height)
    IN  [image_x |-> QAdd(QInt(f.x), QDiv(QSub(QInt(f.card_width), draw_width), QInt(2))),
         image_y |-> QAdd(QInt(f.y), QDiv(QSub(QInt(f.card_height), draw_height), QInt(2))),
         draw_width |-> draw_width,
         draw_height |-> draw_height]

\* the image file of the cell
FIT_IMAGE == PathJoin(HD_DIR, <<"1",".","p","n","g">>)

InitFit ==
    /\ prog = "direct_pdf"
    /\ pc = "fit"
    /\ fit \in FitInputs
    /\ lines = <<>>
    /\ pos = 0
    /\ current_type = NoType
    /\ cards = <<>>
    /\ image_dir = None
    /\ files = {}
    /\ i = 1
    /\ img_path = None
    /\ seen_cards = {}
    /\ seen_images = {}
    /\ sections = [t \in SectionTypes |-> <<>>]
    /\ missing_cards = <<>>
    /\ skipped = <<>>
    /\ unique_cards = <<>>
    /\ sec_i = 1
    /\ page_start = 0
    /\ first_page = TRUE
    /\ first_section = TRUE
    /\ pages = <<>>
    /\ reported = <<>>
    /\ unreadable \in {{}, {FIT_IMAGE}}
    /\ fallback = None
    /\ REPORTLAB_AVAILABLE = TRUE
    /\ PIL_AVAILABLE \in BOOLEAN
    /\ grid = None
    /\ raw_name = None
    /\ cleaned = None

\* the body of `if os.path.exists(image_path):` for one image: the scaled
\* image with PIL, the image stretched over the cell without PIL, and the
\* placeholder rectangle when opening or drawing the file raises
DrawImage(f, pil, raises) ==
    IF raises
    THEN [kind |-> "placeholder",
          image_x |-> QInt(f.x), image_y |-> QInt(f.y),
          draw_width |-> QInt(f.card_width), draw_height |-> QInt(f.card_height)]
    ELSE IF pil
    THEN [kind |-> "scaled"] @@ ScaleToFit(f)
    ELSE [kind |-> "stretched",
          image_x |-> QInt(f.x), image_y |-> QInt(f.y),
          draw_width |-> QInt(f.card_width), draw_height |-> QInt(f.card_height)]

\* lines 241-274 of create_direct_pdf_with_reportlab for an existing file
CreateDirectPdfDrawImage ==
    /\ prog = "direct_pdf"
    /\ pc = "fit"
    /\ fit' = [args |-> fit,
               drawn |-> DrawImage(fit, PIL_AVAILABLE, FIT_IMAGE \in unreadable)]
    /\ pc' = "fit_done"
    /\ UNCHANGED <<importVars, fallback, prog, parseVars, genVars, grid,
                   raw_name, cleaned>>

NextFit == CreateDirectPdfDrawImage

SpecFit == InitFit /\ [][NextFit]_vars

(***************************************************************************)
(* parse_deck_file of generate_simple_pdfs.py (and, with the same text, of *)
(* download_and_generate_pdfs.py), which splits the text of the file into  *)
(* blocks at empty lines, and parse_deck_file of                           *)
(* generate_pdf_with_images.py, which reads the file line by line.  Both   *)
(* are applied to whole files of at most MaxBlockLines lines of BlockPool. *)
(***************************************************************************)
MaxBlockLines == 5

NL == "\n"

\* str.strip(): blanks, tabs and newlines are removed at both ends
RECURSIVE StripText(_)
StripText(s) ==
    IF s = <<>> THEN s
    ELSE IF IsSpace(s[1]) \/ s[1] = NL THEN StripText(Tail(s))
    ELSE IF IsSpace(s[Len(s)]) \/ s[Len(s)] = NL THEN StripText(SubSeq(s, 1, Len(s) - 1))
    ELSE s

RECURSIVE Content(_)
\* f.read() of a file whose lines are ls, each ended by a newline
Content(ls) ==
    IF ls = <<>> THEN <<>> ELSE Head(ls) \o <<NL>> \o Content(Tail(ls))

RECURSIVE Split(_, _)
\* str.split(sep): the pieces between the occurrences of sep, left to right
Split(s, sep) ==
    LET hits == {j \in 1..Len(s) : LitAt(s, j, sep)}
    IN  IF hits = {} THEN <<s>>
        ELSE LET j == CHOOSE x \in hits : \A y \in hits : x <= y
             IN  <<SubSeq(s, 1, j - 1)>> \o Split(SubSeq(s, j + Len(sep), Len(s)), sep)

\* the if/elif chain of headers of generate_simple_pdfs.parse_deck_file and of
\* generate_pdf_with_images.parse_deck_file
HeaderTypeSimple(line) ==
    IF line = EXTRA_DECK THEN "Monster"
    ELSE IF line = MONSTER_CARDS THEN "Monster"
    ELSE IF line = SPELL_CARDS THEN "Spell"
    ELSE IF line = TRAP_CARDS THEN "Trap"
    ELSE NoType

\* the dict appended for a matched line
SimpleCard(m, type) ==
    [name |-> Strip(m.name), type |-> type, edopro_id |-> Strip(m.id)]

\* `match = re.match(...)`, `if match and current_type`, `if not edopro_id: continue`
SimpleAppend(st, raw) ==
    LET line == StripText(raw)
        m == MatchDirect(line)
    IN  IF ProducesEntry(m, st.type) /\ Strip(m.id) # <<>>
        THEN [type |-> st.type, cards |-> Append(st.cards, SimpleCard(m, st.type))]
        ELSE st

RECURSIVE BlockCards(_, _)
\* generate_simple_pdfs.parse_deck_file: `for line in lines` over one block
BlockCards(ls, st) ==
    IF ls = <<>> THEN st ELSE BlockCards(Tail(ls), SimpleAppend(st, Head(ls)))

RECURSIVE ParseBlocks(_, _)
\* generate_simple_pdfs.parse_deck_file: `for section in sections`; a block
\* whose first line is a header sets the type and is left by `continue`
ParseBlocks(secs, st) ==
    IF secs = <<>> THEN st
    ELSE LET ls == Split(StripText(Head(secs)), <<NL>>)
             first_line == StripText(ls[1])
             h == HeaderTypeSimple(first_line)
         IN  IF h # NoType
             THEN ParseBlocks(Tail(secs), [type |-> h, cards |-> st.cards])
             ELSE ParseBlocks(Tail(secs), BlockCards(ls, st))

RECURSIVE ParseLines(_, _)
\* generate_pdf_with_images.parse_deck_file: `for line in lines`
ParseLines(ls, st) ==
    IF ls = <<>> THEN st
    ELSE LET h == HeaderTypeSimple(StripText(Head(ls)))
         IN  IF h # NoType
             THEN ParseLines(Tail(ls), [type |-> h, cards |-> st.cards])
             ELSE ParseLines(Tail(ls), SimpleAppend(st, Head(ls)))

ParseStart == [type |-> NoType, cards |-> <<>>]

BlockPool ==
    { MONSTER_CARDS, SPELL_CARDS,
      <<"1","."," ","A","x"," ","(","E","D","O","P","r","o",":"," ","1",")">>,
      <<"2","."," ","B","o"," ","(","E","D","O","P","r","o",":"," ","2",")">>,
      <<>>, <<" ">> }

BlockFiles == UNION {[1..n -> BlockPool] : n \in 0..MaxBlockLines}

InitBlocks ==
    /\ prog \in {"simple_pdfs", "pdf_with_images"}
    /\ pc = "parse"
    /\ lines \in BlockFiles
    /\ pos = 0
    /\ current_type = NoType
    /\ cards = <<>>
    /\ image_dir = None
    /\ files = {}
    /\ i = 1
    /\ img_path = None
    /\ seen_cards = {}
    /\ seen_images = {}
    /\ sections = [t \in SectionTypes |-> <<>>]
    /\ missing_cards = <<>>
    /\ skipped = <<>>
    /\ unique_cards = <<>>
    /\ sec_i = 1
    /\ page_start = 0
    /\ first_page = TRUE
    /\ first_section = TRUE
    /\ pages = <<>>
    /\ reported = <<>>
    /\ unreadable = {}
    /\ fallback = None
    /\ Imported
    /\ FnIdle

\* generate_simple_pdfs.parse_deck_file
ParseDeckFileBlocks ==
    /\ prog = "simple_pdfs"
    /\ pc = "parse"
    /\ LET st == ParseBlocks(Split(Content(lines), <<NL, NL>>), ParseStart)
       IN  /\ cards' = st.cards
           /\ current_type' = st.type
    /\ pc' = "parsed"
    /\ UNCHANGED <<importVars, fallback, fnVars, prog, lines, pos, genVars>>

\* generate_pdf_with_images.parse_deck_file
ParseDeckFileLines ==
    /\ prog = "pdf_with_images"
    /\ pc = "parse"
    /\ LET st == ParseLines(lines, ParseStart)
       IN  /\ cards' = st.cards
           /\ current_type' = st.type
    /\ pc' = "parsed"
    /\ UNCHANGED <<importVars, fallback, fnVars, prog, lines, pos, genVars>>

NextBlocks == ParseDeckFileBlocks \/ ParseDeckFileLines

SpecBlocks == InitBlocks /\ [][NextBlocks]_vars

(***************************************************************************)
(* clean_card_name alone, applied to every name of at most MaxNameLen      *)
(* characters over NameChars: a letter, a letter of Latin-1, a digit, the   *)
(* dot of an ordinal, a blank, an apostrophe, a hyphen and the two         *)
(* parentheses.                                                            *)
(***************************************************************************)
MaxNameLen == 5

NameChars == {"a", "é", "1", ".", " ", "'", "-", "(", ")"}

CleanInputs == UNION {[1..n -> NameChars] : n \in 0..MaxNameLen}

InitClean ==
    /\ prog = "deck_pdfs"
    /\ pc = "clean"
    /\ raw_name \in CleanInputs
    /\ cleaned = None
    /\ grid = None
    /\ fit = None
    /\ lines = <<>>
    /\ pos = 0
    /\ current_type = NoType
    /\ cards = <<>>
    /\ image_dir = None
    /\ files = {}
    /\ i = 1
    /\ img_path = None
    /\ seen_cards = {}
    /\ seen_images = {}
    /\ sections = [t \in SectionTypes |-> <<>>]
    /\ missing_cards = <<>>
    /\ skipped = <<>>
    /\ unique_cards = <<>>
    /\ sec_i = 1
    /\ page_start = 0
    /\ first_page = TRUE
    /\ first_section = TRUE
    /\ pages = <<>>
    /\ reported = <<>>
    /\ unreadable = {}
    /\ fallback = None
    /\ Imported

\* cleaned_name = clean_card_name(card_name)
CleanCardName ==
    /\ pc = "clean"
    /\ cleaned' = clean_card_name(raw_name)
    /\ pc' = "cleaned"
    /\ UNCHANGED <<importVars, fallback, prog, grid, fit, raw_name, parseVars,
                   genVars>>

NextClean == CleanCardName

SpecClean == InitClean /\ [][NextClean]_vars

(***************************************************************************)
(* Properties.                                                             *)
(***************************************************************************)
\* the occupied slots of the layout: <<page number, slot number>>
PlacedPos == {x \in (1..Len(pages)) \X (1..CardsPerPage) : x[2] <= Len(pages[x[1]].cells)}

CellAt(x) == pages[x[1]].cells[x[2]]

\* the slots that create_pdf_page and create_direct_pdf_with_reportlab give
\* to a card: <<page number, slot number>>
SlotPos == {x \in (1..Len(pages)) \X (1..CardsPerPage) : x[2] <= Len(pages[x[1]].slots)}

\* the card that is handed to slot x
CardAt(x) == pages[x[1]].cards[x[2]]

\* the number of the last header line before line k of the file, 0 when line k
\* follows no header (headers are compared after trimming)
LastHeaderBefore(k) ==
    LET hs == {h \in 1..(k - 1) : Strip(lines[h]) \in HeaderLines}
    IN  IF hs = {} THEN 0 ELSE CHOOSE h \in hs : \A g \in hs : h >= g

\* the section kind each header literal maps to, as the claim lists them
SpecKind(header) ==
    CASE header = MONSTER_CARDS -> "Monster"
      [] header = FUSION_MONSTERS -> "Monster"
      [] header = RITUAL_MONSTERS -> "Monster"
      [] header = EXTRA_DECK -> "Extra Deck"
      [] header = SPELL_CARDS -> "Spell"
      [] header = TRAP_CARDS -> "Trap"

\* the header line under which line l of the file is listed (l follows a header)
HeaderOfLine(l) == Strip(lines[LastHeaderBefore(l)])

\* the section kind of the header under which line l is listed
KindOfLine(l) == SpecKind(HeaderOfLine(l))

\* the emission order of the sections as the claim gives it
CanonicalOrder == <<"Extra Deck", "Monster", "Spell", "Trap">>

\* the rank of section t in the canonical order
OrderIndex(t) == CHOOSE k \in 1..Len(CanonicalOrder) : CanonicalOrder[k] = t

\* the cell shows a resolved asset
HasAsset(cell) == cell.drawn = "image"

\* C1: no two cards placed anywhere in the layout share the same name, and no
\* two placed cards share the same resolved asset path.
C1_DedupSoundness ==
    \A x \in PlacedPos : \A y \in PlacedPos :
        x # y =>
            /\ CellAt(x).name # CellAt(y).name
            /\ ~(/\ HasAsset(CellAt(x))
                 /\ HasAsset(CellAt(y))
                 /\ CellAt(x).image_path = CellAt(y).image_path)

\* no asset strategy succeeds for the card and it has no supplemental text
Unresolved(card) ==
    IF prog = "deck_pdfs"
    THEN /\ find_image_file(card.name, image_dir, files, card.edopro_id) = None
         /\ get_card_descriptions(card.name) = None
    ELSE PathJoin(image_dir, Format(card.edopro_id) \o PNG) \notin files

\* C2: an entry for which no asset strategy succeeds and no supplemental text
\* exists is never dropped: when the document is finished it occupies a slot
\* of the layout.
C2_UnresolvedStillPlaced ==
    pc = "done" =>
        \A k \in 1..Len(cards) :
            Unresolved(cards[k]) =>
                \E x \in PlacedPos : CellAt(x).name = cards[k].name

\* the entry that generate_deck_pdf has just resolved
ResolvedEntry == cards[1]

\* the path of file name f in the image directory
InDir(f) == PathJoin(image_dir, f)

\* the asset index has the key: the file exists in the image directory
HasKey(f) == InDir(f) \in files

\* the entry has been resolved: the loop has passed it
ResolveDone == i > 1 /\ Len(cards) = 1

\* C3 as stated: an entry whose identifier is a key of the asset index and whose
\* normalized name is also a key resolves to the identifier's asset, for any
\* image directory.
C3_IdentifierWinsAnyDir ==
    ResolveDone =>
        LET e == ResolvedEntry
        IN  (/\ Truthy(e.edopro_id)
             /\ HasKey(e.edopro_id \o PNG)
             /\ HasKey(clean_card_name(e.name) \o JPG))
            => img_path = InDir(e.edopro_id \o PNG)

\* The strategy chain as the claim lists it: the file name each strategy looks
\* up, None when the strategy does not apply to the entry.
StrategyKey(e, k) ==
    LET n == clean_card_name(e.name)
    IN  CASE k = 1 -> IF Truthy(e.edopro_id) THEN e.edopro_id \o PNG ELSE None
          [] k = 2 -> n \o JPG
          [] k = 3 -> n \o S_JPG
          [] k = 4 -> n \o ALT_ART_JPG
          [] k = 5 -> special_mappings(n)

\* strategy k yields an existing asset
Yields(e, k) == StrategyKey(e, k) # None /\ HasKey(StrategyKey(e, k))

\* the asset of the first strategy among ks that yields one, None when none does
FirstYield(e, ks) ==
    IF \E k \in ks : Yields(e, k)
    THEN LET k == CHOOSE a \in ks : Yields(e, a) /\ \A b \in ks : Yields(e, b) => a <= b
         IN  InDir(StrategyKey(e, k))
    ELSE None

\* C4 as stated: resolve returns the asset of the first of the five strategies,
\* in their fixed order, that yields an existing asset, and no asset when none
\* does.
C4_FirstStrategyWins ==
    ResolveDone => img_path = FirstYield(ResolvedEntry, 1..5)

\* C5: every page produced by the paginator holds at most 4 cards.
C5_CapacityBound ==
    \A p \in 1..Len(pages) :
        /\ Len(pages[p].cards) <= 4
        /\ Len(pages[p].slots) <= 4

\* a section with more than four cards has been paginated
C5_Witness ==
    \E p \in 1..(Len(pages) - 1) :
        /\ pages[p].section = pages[p + 1].section
        /\ Len(pages[p].slots) = 4
        /\ Len(pages[p + 1].slots) >= 1

\* C6: no page contains cards from two different sections, the section of a
\* card being the kind of the header it is listed under, and every page after
\* the first starts with a page break, so the first page of a section never
\* shares a sheet with the last page of the section before it.
C6_SectionIsolation ==
    \A p \in 1..Len(pages) :
        /\ \A a \in 1..Len(pages[p].slots) : \A b \in 1..Len(pages[p].slots) :
               KindOfLine(pages[p].cards[a].line) = KindOfLine(pages[p].cards[b].line)
        /\ p > 1 => pages[p].show_page

\* slot x comes before slot y in the layout
Before(x, y) == x[1] < y[1] \/ (x[1] = y[1] /\ x[2] < y[2])

\* C7: of two placed entries of the same section, the one that appears earlier
\* in the source text appears earlier in the layout.  Two entries are of the
\* same section when the parser gave them the same section, and in
\* generate_deck_pdfs.py also when their headers are of the same kind.
C7_OrderPreserved ==
    \A x \in SlotPos : \A y \in SlotPos :
        (/\ \/ pages[x[1]].section = pages[y[1]].section
            \/ /\ prog = "deck_pdfs"
               /\ KindOfLine(CardAt(x).line) = KindOfLine(CardAt(y).line)
         /\ CardAt(x).line < CardAt(y).line)
        => Before(x, y)

\* two entries of one section placed on different pages, and two on one page
C7_Witness ==
    /\ pc = "done"
    /\ \E x \in SlotPos : \E y \in SlotPos :
          /\ pages[x[1]].section = pages[y[1]].section
          /\ x[1] < y[1]
          /\ CardAt(x).line < CardAt(y).line
    /\ \E x \in SlotPos : \E y \in SlotPos :
          /\ x[1] = y[1]
          /\ x[2] < y[2]
          /\ CardAt(x).line < CardAt(y).line

\* the entries parsed from line k
EntriesOfLine(k) == {j \in 1..Len(cards) : cards[j].line = k}

\* line k yields exactly one entry, with the fields of sample e and the section
\* that was active when the line was read
ParsesTo(k, e) ==
    /\ Cardinality(EntriesOfLine(k)) = 1
    /\ \A j \in EntriesOfLine(k) :
          /\ cards[j].name = e.name
          /\ cards[j].edopro_id = e.id
          /\ cards[j].count = ToInt(e.count)
          /\ cards[j].type = HeaderTypeNew(Strip(lines[LastHeaderBefore(k)]))

\* C8 as stated: a card line '<ordinal>. <name> (ID: <identifier>) (<count> copies)'
\* read while a section is active parses to one entry with that name, identifier,
\* count and section.
C8_IdLineParses ==
    prog = "deck_pdfs" =>
        \A k \in 1..Len(lines) : \A e \in IdCardSamples :
            (lines[k] = IdCardLine(e) /\ LastHeaderBefore(k) > 0) => ParsesTo(k, e)

\* C8 amended: the identifier annotation is written '(EDOPro: <identifier>)'; a
\* card line '<ordinal>. <name> (EDOPro: <identifier>) (<count> copies)' read
\* while a section is active parses to one entry with that name, identifier,
\* count and section.
C8_EDOProLineParses ==
    prog = "deck_pdfs" =>
        \A k \in 1..Len(lines) : \A e \in FullCardSamples :
            (lines[k] = FullCardLine(e) /\ LastHeaderBefore(k) > 0) => ParsesTo(k, e)

C8_Witness ==
    /\ prog = "deck_pdfs"
    /\ \E k \in 1..Len(lines) : \E e \in FullCardSamples :
          /\ lines[k] = FullCardLine(e)
          /\ LastHeaderBefore(k) > 0
          /\ Strip(lines[LastHeaderBefore(k)]) = MONSTER_CARDS
          /\ ParsesTo(k, e)
          /\ cards[CHOOSE j \in EntriesOfLine(k) : TRUE].type = "Monster"
          /\ cards[CHOOSE j \in EntriesOfLine(k) : TRUE].count = 2

\* C9: no entry is produced while no section is active: every entry comes from a
\* line that follows a recognized header.
C9_NoEntryBeforeHeader ==
    \A j \in 1..Len(cards) : LastHeaderBefore(cards[j].line) > 0

\* a card line was read before the first header and gave no entry, and the same
\* kind of line read after the header gave one
C9_Witness ==
    /\ Len(lines) = 3
    /\ \E e \in FullCardSamples : lines[1] = FullCardLine(e) /\ lines[3] = FullCardLine(e)
    /\ lines[2] \in HeaderLines
    /\ Len(cards) = 1
    /\ cards[1].line = 3

\* C10: every parsed entry's section is the kind that the most recent preceding
\* header maps to: MONSTER CARDS:, FUSION MONSTERS:, RITUAL MONSTERS: -> Monster;
\* EXTRA DECK: -> ExtraDeck; SPELL CARDS: -> Spell; TRAP CARDS: -> Trap.
C10_SectionOfLastHeader ==
    \A j \in 1..Len(cards) :
        /\ LastHeaderBefore(cards[j].line) > 0
        /\ cards[j].type = SpecKind(Strip(lines[LastHeaderBefore(cards[j].line)]))

\* the cell shows a card that the file lists under header h
ListedUnder(cell, h) ==
    LastHeaderBefore(cell.line) > 0 /\ HeaderOfLine(cell.line) = h

\* C11: cards listed under EXTRA DECK: are never placed on the same page as cards
\* listed under MONSTER CARDS:.
C11_ExtraDeckOwnPages ==
    \A p \in 1..Len(pages) :
        \A a \in 1..Len(pages[p].cells) : \A b \in 1..Len(pages[p].cells) :
            ~(/\ ListedUnder(pages[p].cells[a], EXTRA_DECK)
              /\ ListedUnder(pages[p].cells[b], MONSTER_CARDS))

\* C12: sections are emitted in the fixed order ExtraDeck, Monster, Spell, Trap,
\* whatever the order of the headers in the file: every page with a card of a
\* section comes before every page with a card of any section later in that
\* order, the section of a card being the kind of the header it is listed under.
C12_SectionOrder ==
    \A x \in SlotPos : \A y \in SlotPos :
        OrderIndex(KindOfLine(CardAt(x).line)) < OrderIndex(KindOfLine(CardAt(y).line))
            => x[1] < y[1]

\* the numbers of the pages of section t, in emission order
PagesOf(t) == {p \in 1..Len(pages) : pages[p].section = t}

\* ceil(n / 4)
CeilDiv4(n) == (n + 3) \div 4

\* C13: when the document is finished, a section with n deduplicated members has
\* exactly ceil(n/4) pages; each of them but the last holds exactly 4 cards, the
\* last holds between 1 and 4, and a section without members has no page.
C13_PageCount ==
    pc = "done" =>
        \A t \in SectionTypes :
            LET n == Len(sections[t])
                ps == PagesOf(t)
            IN  /\ Cardinality(ps) = CeilDiv4(n)
                /\ \A p \in ps :
                      IF \E q \in ps : q > p
                      THEN Len(pages[p].slots) = 4
                      ELSE /\ Len(pages[p].slots) >= 1
                           /\ Len(pages[p].slots) <= 4
                           /\ Len(pages[p].slots) = n - 4 * (CeilDiv4(n) - 1)

\* 5 unique monsters and nothing else: two Monster pages holding 4 and 1 cards
C13_Witness ==
    /\ pc = "done"
    /\ Len(sections["Monster"]) = 5
    /\ \A t \in SectionTypes \ {"Monster"} : sections[t] = <<>>
    /\ Len(pages) = 2
    /\ pages[1].section = "Monster" /\ Len(pages[1].slots) = 4
    /\ pages[2].section = "Monster" /\ Len(pages[2].slots) = 1

\* the line carries no count annotation '(<n> copies)'
NoCountAnnotation(line) ==
    /\ ~Contains(line, <<"c","o","p","i">>)
    /\ ~Contains(line, <<"C","o","p","i">>)

\* C14: a card line without a count annotation parses to an entry with count = 1.
C14_DefaultCount ==
    prog = "deck_pdfs" =>
        \A j \in 1..Len(cards) :
            NoCountAnnotation(lines[cards[j].line]) => cards[j].count = 1

\* a line with an identifier and no count, and a line with neither, gave entries
\* of count 1
C14_Witness ==
    /\ prog = "deck_pdfs"
    /\ \E j \in 1..Len(cards) :
          /\ NoCountAnnotation(lines[cards[j].line])
          /\ cards[j].edopro_id # None
          /\ cards[j].count = 1
    /\ \E j \in 1..Len(cards) :
          /\ NoCountAnnotation(lines[cards[j].line])
          /\ cards[j].edopro_id = None
          /\ cards[j].count = 1

\* C15: every entry the parser produces has count >= 1, whatever the card line,
\* one whose count annotation is written 0 included.
C15_CountPositive ==
    prog = "deck_pdfs" => \A j \in 1..Len(cards) : cards[j].count >= 1

\* the headers that both parsers recognise
CommonHeaders == {EXTRA_DECK, MONSTER_CARDS, SPELL_CARDS, TRAP_CARDS}

\* a section is active when line k is read, in either parser
SectionActiveAt(k) == \E h \in 1..(k - 1) : Strip(lines[h]) \in CommonHeaders

\* '<ordinal>. <name>' with no annotation at all
PlainCardLine(line) ==
    /\ OrdinalEnd(line) >= 1
    /\ OrdinalEnd(line) <= Len(line)
    /\ ~Contains(line, <<"(">>)

\* C16: a card line with the ordinal-dot-name prefix and no identifier
\* annotation, read while a section is active, produces an entry, and the
\* entry's identifier is None.
C16_NoIdStillParsed ==
    \A k \in 1..Len(lines) :
        (PlainCardLine(Strip(lines[k])) /\ SectionActiveAt(k)) =>
            \E j \in 1..Len(cards) :
                cards[j].line = k /\ cards[j].edopro_id = None

WINGED_BEASTS_ROAR == <<"W","i","n","g","e","d"," ","B","e","a","s","t","'","s"," ","R","o","a","r">>

\* the key the claim names, and the key with the apostrophe turned into a hyphen
KEY_BEASTS == <<"W","i","n","g","e","d","-","B","e","a","s","t","s","-","R","o","a","r">>
KEY_BEAST_S == <<"W","i","n","g","e","d","-","B","e","a","s","t","-","s","-","R","o","a","r">>

\* the entry "Winged Beast's Roar" without identifier has been resolved
RoarResolved ==
    /\ ResolveDone
    /\ ResolvedEntry.name = WINGED_BEASTS_ROAR
    /\ ResolvedEntry.edopro_id = None

\* C17 as stated: "Winged Beast's Roar" without identifier, resolved against an
\* asset index with the key "Winged-Beasts-Roar", resolves to that asset.
C17_RoarResolvesBeasts ==
    (RoarResolved /\ HasKey(KEY_BEASTS \o JPG)) => img_path = InDir(KEY_BEASTS \o JPG)

\* C17 amended: the normalized name of "Winged Beast's Roar" is
\* "Winged-Beast-s-Roar"; against an asset index with that key the entry resolves
\* to that asset, by the exact match on the normalized name.
C17_RoarResolvesBeastS ==
    (RoarResolved /\ HasKey(KEY_BEAST_S \o JPG)) =>
        /\ clean_card_name(ResolvedEntry.name) = KEY_BEAST_S
        /\ img_path = InDir(KEY_BEAST_S \o JPG)

C17_Witness ==
    /\ RoarResolved
    /\ HasKey(KEY_BEAST_S \o JPG)
    /\ img_path = InDir(KEY_BEAST_S \o JPG)
    /\ Len(sections["Trap"]) = 1
    /\ sections["Trap"][1].image_path = img_path

\* the items generate_deck_pdf has put in its section lists
SectionItems == UNION {{sections[t][k] : k \in 1..Len(sections[t])} : t \in SectionTypes}

\* the entry an item was made from
EntryOf(item) == cards[CHOOSE j \in 1..Len(cards) : cards[j].line = item.line]

\* C18: supplemental data is looked up by identifier only: the item of an entry
\* without identifier carries no supplemental data, whatever its name.
C18_NoIdNoSupplemental ==
    \A item \in SectionItems :
        EntryOf(item).edopro_id = None => item.description = None

\* the line starts with the digit-dot prefix  ^\d+\.
DigitDot(line) == LET d == DigitsEnd(line, 1) IN d > 1 /\ CharAt(line, d, ".")

\* the running parser's card-line extraction fails on the line
ExtractionFails(line) ==
    IF prog = "deck_pdfs" THEN ~MatchNew(line).ok ELSE ~MatchDirect(line).ok

\* everything the parser keeps or returns (lines is the file, not parser state)
ParserRecord == <<cards, current_type>>

\* C19: a line that starts with the digit-dot prefix but fails card-line
\* extraction is recorded: reading it leaves a trace in what the parser keeps or
\* returns; it is not silently ignored.
C19_AnomalyRecorded ==
    [][(/\ Len(lines') = Len(lines) + 1
        /\ DigitDot(Strip(lines'[Len(lines')]))
        /\ ExtractionFails(Strip(lines'[Len(lines')])))
       => ParserRecord' # ParserRecord]_vars

\* C20: the parsed name is the full text between the ordinal-dot prefix and the
\* first trailing annotation, surrounding blanks removed, in every parser: the
\* entry parsed from '<ordinal>. <name> (EDOPro: <id>) (<n> copies)' has exactly
\* that name.
C20_NameVerbatim ==
    \A j \in 1..Len(cards) : \A e \in FullCardSamples :
        lines[cards[j].line] = FullCardLine(e) => cards[j].name = e.name

\* the entries with the name of entry j that come before it in the file
EarlierSameName(j) == {k \in 1..Len(cards) : k < j /\ cards[k].name = cards[j].name}

\* entry j occupies a slot of the layout
Placed(j) == \E x \in PlacedPos : CellAt(x).line = cards[j].line

\* C21: deduplication is global: of the entries with one name, whatever their
\* sections, only the one that comes first in the file is placed; a later one is
\* placed in no section.
C21_FirstOccurrenceOnly ==
    \A j \in 1..Len(cards) : EarlierSameName(j) # {} => ~Placed(j)

\* generate_deck_pdf handles entry cards[i] in this step
HandlesEntry == prog = "deck_pdfs" /\ pc = "dedup" /\ i <= Len(cards) /\ i' = i + 1

\* the four outcomes of the step for cards[i]
PlacedStep ==
    \E t \in SectionTypes :
        /\ Len(sections'[t]) = Len(sections[t]) + 1
        /\ sections'[t][Len(sections'[t])].line = cards[i].line
DupNameStep ==
    /\ cards[i].name \in seen_cards
    /\ UNCHANGED <<sections, skipped, missing_cards>>
DupAssetStep == skipped' = Append(skipped, cards[i].name)
MissStep == missing_cards' = Append(missing_cards, cards[i].name)

OutcomeCount ==
    (IF PlacedStep THEN 1 ELSE 0) + (IF DupNameStep THEN 1 ELSE 0)
        + (IF DupAssetStep THEN 1 ELSE 0) + (IF MissStep THEN 1 ELSE 0)

\* the entry is new by name and its asset is already used by a placed card
AssetAlreadyUsed ==
    /\ cards[i].name \notin seen_cards
    /\ find_image_file(cards[i].name, image_dir, files, cards[i].edopro_id) \in seen_images

\* C22: every entry ends in exactly one of four outcomes: placed, dropped as a
\* duplicate name, dropped as a duplicate asset, reported as a resolution miss;
\* an entry whose asset is already used is reported as a duplicate-asset
\* removal and is not added to the resolution misses.
C22_OneOutcome ==
    [][HandlesEntry =>
          /\ OutcomeCount = 1
          /\ AssetAlreadyUsed => (DupAssetStep /\ ~MissStep)]_vars

\* a run in which each of the four outcomes happened
C22_Witness ==
    /\ prog = "deck_pdfs"
    /\ pc = "done"
    /\ Len(skipped) >= 1
    /\ Len(missing_cards) >= 1
    /\ PlacedPos # {}
    /\ \E j \in 1..Len(cards) : \E k \in EarlierSameName(j) : Placed(k) /\ ~Placed(j)
    /\ \A k \in 1..Len(skipped) : \A m \in 1..Len(reported) : skipped[k] # reported[m]

\* the slots of a page in the order the claim fills them, as <<row, column>>:
\* top-left, top-right, bottom-left, bottom-right
SlotOrder == << <<0, 0>>, <<0, 1>>, <<1, 0>>, <<1, 1>> >>

\* C23: within a page the i-th card (i = 0..3) is drawn in row i div 2 and column
\* i mod 2: the cards of a page fill the slots top-left, top-right, bottom-left,
\* bottom-right in that order, every card of the page is drawn in a slot, and a
\* page with k < 4 cards leaves the last 4 - k slots empty.
C23_SlotOrder ==
    \A p \in 1..Len(pages) :
        /\ Len(pages[p].slots) = Len(pages[p].cards)
        /\ \A k \in 1..Len(pages[p].slots) :
              /\ pages[p].slots[k].row = (k - 1) \div 2
              /\ pages[p].slots[k].col = (k - 1) % 2
              /\ <<pages[p].slots[k].row, pages[p].slots[k].col>> = SlotOrder[k]

\* a full page, its fourth card bottom-right, and a page with fewer than 4 cards
\* have been drawn
C23_Witness ==
    /\ \E p \in 1..Len(pages) :
          /\ Len(pages[p].slots) = 4
          /\ pages[p].slots[3].row = 1 /\ pages[p].slots[3].col = 0
          /\ pages[p].slots[4].row = 1 /\ pages[p].slots[4].col = 1
    /\ \E p \in 1..Len(pages) :
          /\ Len(pages[p].slots) \in 1..3
          /\ pages[p].slots[1].row = 0 /\ pages[p].slots[1].col = 0

\* the four cells have been computed
GridDone == pc = "grid_done"

\* cell c lies inside the printable area of page g: it reaches into no margin
\* and not into the header band
InsidePrintable(g, c) ==
    /\ c.x >= g.margin
    /\ c.x + c.width <= g.page_width - g.margin
    /\ c.y >= g.margin
    /\ c.y + c.height <= g.page_height - g.margin - g.header_space

\* C24: the four cells are equal in size, of width (page_width - 2*margin - gap)/2,
\* pairwise disjoint and exactly one gap apart, and each lies entirely inside
\* the printable area.
C24_CellsInsidePrintable ==
    GridDone =>
        LET g == grid.page
            c == grid.cells
        IN  /\ \A k \in 1..4 :
                  /\ 2 * c[k].width = g.page_width - 2 * g.margin - g.gap
                  /\ c[k].height = c[1].height
                  /\ InsidePrintable(g, c[k])
            /\ c[2].x = c[1].x + c[1].width + g.gap
            /\ c[4].x = c[3].x + c[3].width + g.gap
            /\ c[1].y = c[3].y + c[3].height + g.gap
            /\ c[2].y = c[4].y + c[4].height + g.gap
            /\ c[1].x = c[3].x /\ c[2].x = c[4].x
            /\ c[1].y = c[2].y /\ c[3].y = c[4].y

\* C25: the scale-to-fit transform, which runs when the size of the image is
\* known, draws the image with width <= cell width and height <= cell height,
\* with equality in at least one dimension, with drawn width : drawn height
\* equal to the aspect ratio of the image, and centred in the cell: the
\* remainder is the same left and right, and the same below and above.
C25_ScaleToFit ==
    (pc = "fit_done" /\ fit.drawn.kind = "scaled") =>
        LET f == fit.args
            r == fit.drawn
            cw == QInt(f.card_width)
            ch == QInt(f.card_height)
        IN  /\ QLe(r.draw_width, cw)
            /\ QLe(r.draw_height, ch)
            /\ QEq(r.draw_width, cw) \/ QEq(r.draw_height, ch)
            /\ QEq(QMul(r.draw_width, QInt(f.img_height)),
                   QMul(r.draw_height, QInt(f.img_width)))
            /\ QEq(QSub(r.image_x, QInt(f.x)),
                   QSub(QAdd(QInt(f.x), cw), QAdd(r.image_x, r.draw_width)))
            /\ QEq(QSub(r.image_y, QInt(f.y)),
                   QSub(QAdd(QInt(f.y), ch), QAdd(r.image_y, r.draw_height)))

\* an image taller than its cell has been fitted to the height, with a
\* remainder left and right
C25_Witness ==
    /\ pc = "fit_done"
    /\ fit.drawn.kind = "scaled"
    /\ fit.args.img_width = 2 /\ fit.args.img_height = 3
    /\ fit.args.card_width = 3 /\ fit.args.card_height = 2
    /\ QEq(fit.drawn.draw_height, QInt(2))
    /\ QEq(fit.drawn.draw_width, [n |-> 4, d |-> 3])
    /\ QGt(fit.drawn.image_x, QInt(fit.args.x))

\* the header literals the running parser recognises
RecognizedHeaders == IF prog = "deck_pdfs" THEN HeaderLines ELSE CommonHeaders

\* the parser reads one more line in this step
ReadsLine == Len(lines') = Len(lines) + 1

\* C26: the current section changes only on header lines: a line that is not
\* one of the recognized header literals leaves it unchanged, and once a header
\* has been seen the current section is never absent again.
C26_SectionOnlyOnHeaders ==
    [][ReadsLine =>
          /\ Strip(lines'[Len(lines')]) \notin RecognizedHeaders
                 => current_type' = current_type
          /\ current_type # NoType => current_type' # NoType]_vars

\* after MONSTER CARDS:, a header in another case and a card line were read and
\* the section is still Monster
C26_Witness ==
    /\ Len(lines) = 3
    /\ lines[1] = MONSTER_CARDS
    /\ lines[2] = <<"s","p","e","l","l"," ","c","a","r","d","s",":">>
    /\ lines[3] \in {FullCardLine(e) : e \in FullCardSamples}
    /\ current_type = "Monster"
    /\ Len(cards) = 1
    /\ cards[1].type = "Monster"

\* the sum over the sections of ceil(n / 4)
PagesOwed ==
    CeilDiv4(Len(sections["Extra Deck"])) + CeilDiv4(Len(sections["Monster"]))
        + CeilDiv4(Len(sections["Spell"])) + CeilDiv4(Len(sections["Trap"]))

\* C27: a page break is issued exactly once before every page except the first
\* and not before the first; no page is without cards; and when the document is
\* finished the number of pages is the sum over the sections of ceil(n/4).
C27_BreaksMatchPages ==
    /\ \A p \in 1..Len(pages) :
          /\ pages[p].breaks = (IF p = 1 THEN 0 ELSE 1)
          /\ Len(pages[p].slots) >= 1
    /\ pc = "done" => Len(pages) = PagesOwed

\* three sections of one under-full page each: a break at each boundary
C27_Witness ==
    /\ pc = "done"
    /\ Len(pages) = 3
    /\ pages[1].section # pages[2].section
    /\ pages[2].section # pages[3].section
    /\ Len(pages[1].slots) < 4
    /\ pages[1].breaks = 0 /\ pages[2].breaks = 1 /\ pages[3].breaks = 1

\* C28: for every deck text the parser that splits the text into blocks at
\* empty lines returns the same sequence of (name, section, identifier)
\* entries as the line-by-line parser.
C28_BlocksEqualLines ==
    (prog = "simple_pdfs" /\ pc = "parsed")
        => cards = ParseLines(lines, ParseStart).cards

\* the two parsers agree on the files in which every header stands alone in
\* its block and no block of cards holds a header
C28_AgreeOnSeparatedFiles ==
    (/\ prog = "simple_pdfs"
     /\ pc = "parsed"
     /\ \A k \in 1..Len(lines) :
           HeaderTypeSimple(StripText(lines[k])) # NoType
               => /\ k > 1 => lines[k - 1] = <<>>
                  /\ k < Len(lines) => lines[k + 1] = <<>>)
        => cards = ParseLines(lines, ParseStart).cards

\* C29: the list of resolution misses names each unresolved card at most
\* once, even when the same unresolved name occurs on several card lines.
C29_MissingNamedOnce ==
    /\ \A a, b \in 1..Len(missing_cards) :
          missing_cards[a] = missing_cards[b] => a = b
    /\ \A a, b \in 1..Len(reported) : reported[a] = reported[b] => a = b

\* C30: name normalisation is idempotent, clean_card_name(clean_card_name(name))
\* = clean_card_name(name), and its result contains only word characters and
\* hyphens, has no two consecutive hyphens and does not end with a hyphen.
C30_CleanIdempotent ==
    pc = "cleaned" =>
        /\ clean_card_name(cleaned) = cleaned
        /\ \A k \in 1..Len(cleaned) : cleaned[k] \in WordChars \cup {"-"}
        /\ \A k \in 1..(Len(cleaned) - 1) : ~(cleaned[k] = "-" /\ cleaned[k + 1] = "-")
        /\ cleaned # <<>> => cleaned[Len(cleaned)] # "-"

\* a name with an apostrophe and a trailing blank, cleaned to a shorter name
\* with a single hyphen inside
C30_Witness ==
    /\ pc = "cleaned"
    /\ \E k \in 1..Len(raw_name) : raw_name[k] = "'"
    /\ raw_name[Len(raw_name)] = " "
    /\ Len(cleaned) < Len(raw_name)
    /\ \E k \in 1..Len(cleaned) : cleaned[k] = "-"

====
